---- MODULE Spec2Model ----
(***************************************************************************)
(* Model of the design-guide extraction pipeline of                        *)
(* src/design-guide/main.py: DesignExtractor.extract_all, the stages it    *)
(* calls, and main().                                                      *)
(*                                                                         *)
(* JavaScript and Python strings are sequences of one-character strings,   *)
(* so that concatenation, joining, number formatting, regular-expression   *)
(* matching and parseFloat are computed on the text as the code computes   *)
(* them.                                                                   *)
(***************************************************************************)
EXTENDS Integers, Sequences, FiniteSets, TLC

VARIABLES
    page,                 \* the document the browser renders (the run's input)
    self,                 \* the DesignExtractor's fields
    pc,                   \* the next step of main / extract_all
    trace,                \* the steps entered so far, in order
    raised,               \* the steps in which a call raised an uncaught exception
    browser,              \* "none", "open" or "closed"
    viewport,             \* the session's current viewport size
    mouse_moves,          \* the points (in half pixels) page.mouse.move was called with
    files,                \* the files written to output_dir so far, in order
    warnings,             \* the warnings echoed to stderr by _extract_css
    interactive_elements, \* local of _capture_interactive_states
    hover_states,         \* local of _capture_interactive_states
    hover_i,              \* index of the hover loop (elements probed so far)
    responsive_data,      \* local of _test_responsive
    bp_i,                 \* index of the breakpoint loop (breakpoints finished so far)
    locals,               \* extract_all's locals holding the stages' return values
    data,                 \* the snapshot compiled by extract_all (<<>> until compiled)
    saved_data,           \* the snapshot design_data.json encodes (<<>> until written)
    guide_content,        \* main's guide_content (<<>> until generated)
    exit_status           \* -1 while main runs, then the process exit status

vars == <<page, self, pc, trace, raised, browser, viewport, mouse_moves, files, warnings,
          interactive_elements, hover_states, hover_i, responsive_data, bp_i, locals,
          data, saved_data, guide_content, exit_status>>

----------------------------------------------------------------------------
(* Bounds of the model.                                                    *)

\* the longest document (number of elements) the unit specifications enumerate
MaxElems == 3

\* the largest number of stylesheets of a document
MaxSheets == 3

----------------------------------------------------------------------------
(* Strings.                                                                *)

\* the decimal digit d as a character
Digit(d) == <<"0","1","2","3","4","5","6","7","8","9">>[d + 1]

\* String(n) / '' + n for a non-negative integer n
RECURSIVE NumToString(_)
NumToString(n) ==
    IF n < 10 THEN <<Digit(n)>> ELSE NumToString(n \div 10) \o <<Digit(n % 10)>>

\* Array.prototype.join
RECURSIVE Join(_, _)
Join(list, sep) ==
    IF list = <<>> THEN <<>>
    ELSE IF Len(list) = 1 THEN list[1]
    ELSE list[1] \o sep \o Join(Tail(list), sep)

\* JavaScript truthiness of a string: the empty string is falsy
Truthy(s) == s # <<>>

\* Array.prototype.slice(0, n) / Python's seq[:n]
Slice(seq, n) == SubSeq(seq, 1, IF Len(seq) < n THEN Len(seq) ELSE n)

\* an object used as a map: the empty object, and obj[k] = v
EmptyMap == [k \in {} |-> <<>>]
Put(m, k, v) == [x \in DOMAIN m \cup {k} |-> IF x = k THEN v ELSE m[x]]

\* String.prototype.toLowerCase
LowerOf(c) ==
    CASE c = "A" -> "a" [] c = "B" -> "b" [] c = "C" -> "c" [] c = "D" -> "d" [] c = "E" -> "e" [] c = "F" -> "f"
      [] c = "G" -> "g" [] c = "H" -> "h" [] c = "I" -> "i" [] c = "J" -> "j" [] c = "K" -> "k" [] c = "L" -> "l"
      [] c = "M" -> "m" [] c = "N" -> "n" [] c = "O" -> "o" [] c = "P" -> "p" [] c = "Q" -> "q" [] c = "R" -> "r"
      [] c = "S" -> "s" [] c = "T" -> "t" [] c = "U" -> "u" [] c = "V" -> "v" [] c = "W" -> "w" [] c = "X" -> "x"
      [] c = "Y" -> "y" [] c = "Z" -> "z"
      [] OTHER -> c
ToLowerCase(s) == [i \in 1..Len(s) |-> LowerOf(s[i])]

----------------------------------------------------------------------------
(* The document: elements and their computed styles.                       *)

S_none == <<"n","o","n","e">>   \* 'none'
S_normal == <<"n","o","r","m","a","l">>   \* 'normal'
S_auto == <<"a","u","t","o">>   \* 'auto'
S_0px == <<"0","p","x">>   \* '0px'
S_1 == <<"1">>   \* '1'
S_transparent == <<"r","g","b","a","(","0",","," ","0",","," ","0",","," ","0",")">>   \* 'rgba(0, 0, 0, 0)'
S_black == <<"r","g","b","(","0",","," ","0",","," ","0",")">>   \* 'rgb(0, 0, 0)'
S_red == <<"r","g","b","(","2","5","5",","," ","0",","," ","0",")">>   \* 'rgb(255, 0, 0)'
S_16px == <<"1","6","p","x">>   \* '16px'
S_400 == <<"4","0","0">>   \* '400'
S_serif == <<"s","e","r","i","f">>   \* 'serif'
S_static == <<"s","t","a","t","i","c">>   \* 'static'
S_no_border == <<"0","p","x"," ","n","o","n","e">>   \* '0px none'
S_no_transition == <<"a","l","l"," ","0","s"," ","e","a","s","e"," ","0","s">>   \* 'all 0s ease 0s'

\* window.getComputedStyle(el) of an element no stylesheet rule applies to
DefaultComputed ==
    [ color |-> S_black, backgroundColor |-> S_transparent, backgroundImage |-> S_none,
      borderColor |-> S_black, boxShadow |-> S_none,
      fontFamily |-> S_serif, fontSize |-> S_16px, fontWeight |-> S_400,
      lineHeight |-> S_normal, letterSpacing |-> S_normal, textTransform |-> S_none,
      marginTop |-> S_0px, marginRight |-> S_0px, marginBottom |-> S_0px,
      marginLeft |-> S_0px,
      paddingTop |-> S_0px, paddingRight |-> S_0px, paddingBottom |-> S_0px,
      paddingLeft |-> S_0px, padding |-> S_0px,
      gap |-> S_normal, borderRadius |-> S_0px, maxWidth |-> S_none,
      transition |-> S_no_transition, animation |-> S_none,
      textShadow |-> S_none, filter |-> S_none, transform |-> S_none, opacity |-> S_1,
      cursor |-> S_auto, position |-> S_static, top |-> S_auto, zIndex |-> S_auto,
      border |-> S_no_border, height |-> S_auto, scrollBehavior |-> S_auto ]

\* el.getBoundingClientRect() of an element that is laid out
DefaultRect == [top |-> 0, left |-> 0, width |-> 100, height |-> 20]

\* An element: tagName, id, classList (className is truthy exactly when classList
\* is not empty), textContent, the attributes the selectors read (role and type as
\* text, the others as present or absent), its bounding rect, its computed style,
\* and its computed style while the pointer is over it (hover).
El(tagName, id, classList) ==
    [ tagName |-> tagName, id |-> id, classList |-> classList, textContent |-> <<>>,
      role |-> <<>>, type |-> <<>>, onclick |-> FALSE, tabindex |-> FALSE,
      ariaLabel |-> FALSE, ariaDescribedby |-> FALSE, alt |-> FALSE,
      rect |-> DefaultRect, computed |-> DefaultComputed, hover |-> DefaultComputed ]

\* A document: its elements in document order, document.styleSheets, the text of its
\* <style> elements, its <link rel="stylesheet"> elements, and the height of its
\* content.
Doc(elements) ==
    [ elements |-> elements, styleSheets |-> <<>>, inlineStyles |-> <<>>,
      cssLinks |-> <<>>, scrollHeight |-> 0, html |-> "<html>" ]

----------------------------------------------------------------------------
(* StyleSampler: _extract_computed_styles.                                 *)

\* the properties the script copies from the computed style
StyleRecord(computed) ==
    [ fontFamily |-> computed.fontFamily, fontSize |-> computed.fontSize,
      fontWeight |-> computed.fontWeight, lineHeight |-> computed.lineHeight,
      letterSpacing |-> computed.letterSpacing, textTransform |-> computed.textTransform,
      color |-> computed.color, backgroundColor |-> computed.backgroundColor,
      padding |-> computed.padding, borderRadius |-> computed.borderRadius,
      position |-> computed.position, maxWidth |-> computed.maxWidth,
      gap |-> computed.gap, boxShadow |-> computed.boxShadow,
      textShadow |-> computed.textShadow, opacity |-> computed.opacity,
      filter |-> computed.filter, transform |-> computed.transform,
      transition |-> computed.transition, animation |-> computed.animation,
      cursor |-> computed.cursor ]

\* a selector that keeps the first three classes only
ThreeClassSelector(el) ==
    ToLowerCase(el.tagName)
      \o (IF Truthy(el.id) THEN <<"#">> \o el.id ELSE <<>>)
      \o (IF el.classList # <<>> THEN <<".">> \o Join(Slice(el.classList, 3), <<".">>)
          ELSE <<>>)

\* tagName + id + classes: every class of the element, joined by '.'
BaseSelector(el) ==
    ToLowerCase(el.tagName)
      \o (IF Truthy(el.id) THEN <<"#">> \o el.id ELSE <<>>)
      \o (IF el.classList # <<>> THEN <<".">> \o Join(el.classList, <<".">>) ELSE <<>>)

\* the key an element is stored under: its selector, with '_' + idx appended when
\* the selector has been seen before (idx counts from 0)
UniqueSelector(selector, idx, seenSelectors) ==
    IF selector \in seenSelectors THEN selector \o <<"_">> \o NumToString(idx)
    ELSE selector

\* elements.forEach((el, idx) => ...) from element idx + 1 on, given the styles and
\* seenSelectors built so far
RECURSIVE SampleFrom(_, _, _, _)
SampleFrom(elements, idx, styles, seenSelectors) ==
    IF idx >= Len(elements) THEN styles
    ELSE LET el == elements[idx + 1]
             selector == UniqueSelector(BaseSelector(el), idx, seenSelectors)
         IN  SampleFrom(elements, idx + 1,
                        Put(styles, selector, StyleRecord(el.computed)),
                        seenSelectors \cup {selector})

\* the value _extract_computed_styles returns for a document
ExtractComputedStyles(doc) == SampleFrom(doc.elements, 0, EmptyMap, {})

----------------------------------------------------------------------------
(* JavaScript sets, string search and number parsing.                      *)

\* the elements of a sequence
Range(seq) == {seq[i] : i \in 1..Len(seq)}

\* a collection that keeps every value added to it
ArrayPush(set, v) == Append(set, v)

\* A JavaScript Set is modelled by the sequence of its members in insertion order,
\* which is the order Array.from(set) lists them in. Set.prototype.add:
SetAdd(set, v) == IF v \in Range(set) THEN set ELSE Append(set, v)

\* [...new Set(array)]
RECURSIVE SetOf(_)
SetOf(array) ==
    IF array = <<>> THEN <<>>
    ELSE SetAdd(SetOf(SubSeq(array, 1, Len(array) - 1)), array[Len(array)])

\* whether sub occurs in s at position i
OccursAt(s, i, sub) ==
    /\ i + Len(sub) - 1 <= Len(s)
    /\ SubSeq(s, i, i + Len(sub) - 1) = sub

\* String.prototype.includes
Includes(s, sub) == \E i \in 1..(Len(s) + 1) : OccursAt(s, i, sub)

\* the position of the first ')' at or after position k of s (0: none)
RECURSIVE FirstClose(_, _)
FirstClose(s, k) ==
    IF k > Len(s) THEN 0 ELSE IF s[k] = ")" THEN k ELSE FirstClose(s, k + 1)

\* s.match(/rgba?\([^)]+\)/g), scanning from position i: the matches in order (the
\* empty sequence where match returns null)
RECURSIVE MatchColorsFrom(_, _)
MatchColorsFrom(s, i) ==
    IF i > Len(s) THEN <<>>
    ELSE LET open == IF OccursAt(s, i, <<"r","g","b","a","(">>) THEN i + 4
                     ELSE IF OccursAt(s, i, <<"r","g","b","(">>) THEN i + 3
                     ELSE 0
             close == IF open = 0 THEN 0 ELSE FirstClose(s, open + 1)
         IN  IF open # 0 /\ close >= open + 2
             THEN <<SubSeq(s, i, close)>> \o MatchColorsFrom(s, close + 1)
             ELSE MatchColorsFrom(s, i + 1)

IsDigit(c) == c \in {"0","1","2","3","4","5","6","7","8","9"}
DigitValue(c) == CHOOSE d \in 0..9 : Digit(d) = c

\* the number of digits s has from position i on
RECURSIVE DigitRun(_, _)
DigitRun(s, i) == IF i <= Len(s) /\ IsDigit(s[i]) THEN 1 + DigitRun(s, i + 1) ELSE 0

\* the value of the digits s[i .. i + n - 1]
RECURSIVE DigitsValue(_, _, _)
DigitsValue(s, i, n) ==
    IF n = 0 THEN 0 ELSE 10 * DigitsValue(s, i, n - 1) + DigitValue(s[i + n - 1])

\* the number of leading spaces of s
RECURSIVE SpaceRun(_, _)
SpaceRun(s, i) == IF i <= Len(s) /\ s[i] = " " THEN 1 + SpaceRun(s, i + 1) ELSE 0

\* parseFloat(s) for decimal text without an exponent: leading spaces, a sign, digits,
\* a fraction. The value is in thousandths (a fraction is read to three digits); nan
\* is TRUE where parseFloat returns NaN.
NotANumber == [nan |-> TRUE, val |-> 0]

\* the value of a fraction's first n <= 3 digits, which start at position i
Thousandths(s, i, n) ==
    DigitsValue(s, i, n) * (CASE n = 0 -> 0 [] n = 1 -> 100 [] n = 2 -> 10 [] OTHER -> 1)

\* the number with ilen integer digits from position ipos and flen fraction digits
ParseNumber(s, ipos, ilen, flen) ==
    IF ilen = 0 /\ flen = 0 THEN NotANumber
    ELSE [nan |-> FALSE,
          val |-> 1000 * DigitsValue(s, ipos, ilen)
                    + Thousandths(s, ipos + ilen + 1, IF flen > 3 THEN 3 ELSE flen)]

ParseFraction(s, ipos, ilen) ==
    ParseNumber(s, ipos, ilen,
                IF ipos + ilen <= Len(s) /\ s[ipos + ilen] = "."
                THEN DigitRun(s, ipos + ilen + 1) ELSE 0)

ParseUnsigned(s, ipos) == ParseFraction(s, ipos, DigitRun(s, ipos))

Negated(number) == [nan |-> number.nan, val |-> 0 - number.val]

ParseSigned(s, start) ==
    IF start <= Len(s) /\ s[start] = "-" THEN Negated(ParseUnsigned(s, start + 1))
    ELSE IF start <= Len(s) /\ s[start] = "+" THEN ParseUnsigned(s, start + 1)
    ELSE ParseUnsigned(s, start)

ParseFloat(s) == ParseSigned(s, 1 + SpaceRun(s, 1))

\* the UTF-16 code unit order of the characters the modelled strings are made of
CharOrder ==
    << "\n", " ", "#", "%", "(", ")", "*", "+", ",", "-", ".", "/", "0",
       "1", "2", "3", "4", "5", "6", "7", "8", "9", ":", "A", "B", "C",
       "D", "E", "F", "G", "H", "I", "J", "K", "L", "M", "N", "O", "P",
       "Q", "R", "S", "T", "U", "V", "W", "X", "Y", "Z", "_", "a", "b",
       "c", "d", "e", "f", "g", "h", "i", "j", "k", "l", "m", "n", "o",
       "p", "q", "r", "s", "t", "u", "v", "w", "x", "y", "z" >>
CharCode(c) == CHOOSE i \in 1..Len(CharOrder) : CharOrder[i] = c

\* a < b for strings: by code unit, a proper prefix first
RECURSIVE StringLess(_, _)
StringLess(a, b) ==
    IF b = <<>> THEN FALSE
    ELSE IF a = <<>> THEN TRUE
    ELSE IF a[1] = b[1] THEN StringLess(Tail(a), Tail(b))
    ELSE CharCode(a[1]) < CharCode(b[1])

\* the sign of x - y for two parsed numbers, where a NaN difference counts as 0
NumericOrder(x, y) ==
    IF x.nan \/ y.nan THEN 0
    ELSE IF x.val < y.val THEN -1 ELSE IF x.val > y.val THEN 1 ELSE 0

\* The comparators handed to Array.prototype.sort, as the sign sort acts on:
\* "numeric" is (a, b) => parseFloat(a) - parseFloat(b); "default" is sort() without
\* a comparator, which orders by string.
Compare(kind, a, b) ==
    IF kind = "numeric" THEN NumericOrder(ParseFloat(a), ParseFloat(b))
    ELSE IF StringLess(a, b) THEN -1 ELSE IF StringLess(b, a) THEN 1 ELSE 0

\* Array.prototype.sort in the engine the script runs in (Chromium's), for arrays
\* shorter than 64 elements: the run the array starts with is found (and reversed
\* when strictly descending), then every later element is inserted by binary search.

\* the length of the run work starts with, idx being the next position to look at
RECURSIVE RunLength(_, _, _, _)
RunLength(kind, work, idx, isDescending) ==
    IF idx > Len(work) THEN idx - 1
    ELSE IF isDescending = (Compare(kind, work[idx], work[idx - 1]) < 0)
    THEN RunLength(kind, work, idx + 1, isDescending)
    ELSE idx - 1

Reverse(seq) == [i \in 1..Len(seq) |-> seq[Len(seq) + 1 - i]]

\* the number of elements of work[left + 1 .. right] that stay before pivot, plus left
RECURSIVE InsertionPoint(_, _, _, _, _)
InsertionPoint(kind, work, pivot, left, right) ==
    IF left >= right THEN left
    ELSE IF Compare(kind, pivot, work[left + ((right - left) \div 2) + 1]) < 0
    THEN InsertionPoint(kind, work, pivot, left, left + ((right - left) \div 2))
    ELSE InsertionPoint(kind, work, pivot, left + ((right - left) \div 2) + 1, right)

\* work with its element at position start + 1 moved to position left + 1
MoveTo(work, start, left) ==
    SubSeq(work, 1, left) \o <<work[start + 1]>> \o SubSeq(work, left + 1, start)
      \o SubSeq(work, start + 2, Len(work))

\* binary insertion of work[start + 1 ..] into the sorted prefix work[1 .. start]
RECURSIVE BinaryInsertionSort(_, _, _)
BinaryInsertionSort(kind, work, start) ==
    IF start >= Len(work) THEN work
    ELSE BinaryInsertionSort(kind,
             MoveTo(work, start, InsertionPoint(kind, work, work[start + 1], 0, start)),
             start + 1)

\* the array with its first run made ascending
MakeAscending(array, run, isDescending) ==
    IF isDescending
    THEN Reverse(SubSeq(array, 1, run)) \o SubSeq(array, run + 1, Len(array))
    ELSE array

SortFromRun(kind, array, run, isDescending) ==
    BinaryInsertionSort(kind, MakeAscending(array, run, isDescending), run)

SortBy(kind, array, isDescending) ==
    SortFromRun(kind, array, RunLength(kind, array, 3, isDescending), isDescending)

\* an array left in the order it was built in
Unsorted(kind, array) == array

Sort(kind, array) ==
    IF Len(array) < 2 THEN array
    ELSE SortBy(kind, array, Compare(kind, array[2], array[1]) < 0)

----------------------------------------------------------------------------
(* The collectors: _extract_colors, _extract_typography, _extract_layout,  *)
(* _extract_animations, _extract_effects.                                  *)

\* shadowColors.forEach(c => colors.shadow.add(c))
RECURSIVE AddAll(_, _)
AddAll(set, values) ==
    IF values = <<>> THEN set ELSE AddAll(SetAdd(set, values[1]), Tail(values))

\* one step of _extract_colors' forEach: the element's colors added to the sets
ColorsStep(colors, computed) ==
    [ text |->
        IF Truthy(computed.color) /\ computed.color # S_transparent
        THEN SetAdd(colors.text, computed.color) ELSE colors.text,
      background |->
        IF Truthy(computed.backgroundColor) /\ computed.backgroundColor # S_transparent
        THEN SetAdd(colors.background, computed.backgroundColor) ELSE colors.background,
      gradients |->
        IF /\ Truthy(computed.backgroundImage)
           /\ computed.backgroundImage # S_none
           /\ Includes(computed.backgroundImage, <<"g","r","a","d","i","e","n","t">>)
        THEN Append(colors.gradients, computed.backgroundImage) ELSE colors.gradients,
      border |->
        IF Truthy(computed.borderColor) /\ computed.borderColor # S_transparent
        THEN SetAdd(colors.border, computed.borderColor) ELSE colors.border,
      shadow |->
        IF Truthy(computed.boxShadow) /\ computed.boxShadow # S_none
        THEN AddAll(colors.shadow, MatchColorsFrom(computed.boxShadow, 1))
        ELSE colors.shadow ]

\* the forEach over the elements; the step's result is compared with the sets so far
\* so that it is evaluated before the loop goes on to the next element
RECURSIVE ColorsLoop(_, _)
ColorsLoop(elements, colors) ==
    IF elements = <<>> THEN colors
    ELSE LET next == ColorsStep(colors, elements[1].computed)
         IN  IF next = colors THEN ColorsLoop(Tail(elements), colors)
             ELSE ColorsLoop(Tail(elements), next)

\* the gradient list the script returns
GradientList(gradients) == SetOf(gradients)

\* the value _extract_colors returns for a document
ExtractColors(doc) ==
    LET colors == ColorsLoop(doc.elements,
                     [text |-> <<>>, background |-> <<>>, border |-> <<>>,
                      shadow |-> <<>>, gradients |-> <<>>])
    IN  [ textColors |-> colors.text,
          backgroundColors |-> colors.background,
          borderColors |-> colors.border,
          shadowColors |-> colors.shadow,
          gradients |-> GradientList(colors.gradients) ]

\* querySelectorAll / querySelector with a list of tag names: the matching elements
\* in document order
RECURSIVE SelectTags(_, _)
SelectTags(elements, tags) ==
    IF elements = <<>> THEN <<>>
    ELSE (IF ToLowerCase(elements[1].tagName) \in tags THEN <<elements[1]>> ELSE <<>>)
           \o SelectTags(Tail(elements), tags)

T_h1 == <<"h","1">>
T_p == <<"p">>
T_a == <<"a">>
T_span == <<"s","p","a","n">>
T_button == <<"b","u","t","t","o","n">>
T_body == <<"b","o","d","y">>
T_div == <<"d","i","v">>
T_input == <<"i","n","p","u","t">>

\* 'h1, h2, h3, h4, h5, h6, p, a, span, button, li, label'
TextTags ==
    { T_h1, <<"h","2">>, <<"h","3">>, <<"h","4">>, <<"h","5">>, <<"h","6">>,
      T_p, T_a, T_span, T_button, <<"l","i">>, <<"l","a","b","e","l">> }

\* one step of _extract_typography's forEach
TypographyStep(typography, computed) ==
    [ fonts |-> SetAdd(typography.fonts, computed.fontFamily),
      sizes |-> SetAdd(typography.sizes, computed.fontSize),
      weights |-> SetAdd(typography.weights, computed.fontWeight),
      lineHeights |-> SetAdd(typography.lineHeights, computed.lineHeight),
      letterSpacings |-> SetAdd(typography.letterSpacings, computed.letterSpacing),
      textTransforms |->
        IF computed.textTransform # S_none
        THEN SetAdd(typography.textTransforms, computed.textTransform)
        ELSE typography.textTransforms ]

RECURSIVE TypographyLoop(_, _)
TypographyLoop(elements, typography) ==
    IF elements = <<>> THEN typography
    ELSE LET next == TypographyStep(typography, elements[1].computed)
         IN  IF next = typography THEN TypographyLoop(Tail(elements), typography)
             ELSE TypographyLoop(Tail(elements), next)

\* the heading hierarchy: for each of h1..h6 that occurs, the style of its first
\* occurrence
HeadingStyles(elements) ==
    LET tags == { t \in { T_h1, <<"h","2">>, <<"h","3">>, <<"h","4">>, <<"h","5">>,
                          <<"h","6">> } : SelectTags(elements, {t}) # <<>> }
    IN  [ t \in tags |->
            LET computed == SelectTags(elements, {t})[1].computed
            IN  [ fontSize |-> computed.fontSize, fontWeight |-> computed.fontWeight,
                  lineHeight |-> computed.lineHeight,
                  letterSpacing |-> computed.letterSpacing,
                  marginTop |-> computed.marginTop,
                  marginBottom |-> computed.marginBottom, color |-> computed.color ] ]

\* the body text style: of the first p, else of body, else the empty object
BodyStyle(elements) ==
    LET ps == SelectTags(elements, {T_p})
        bodies == SelectTags(elements, {T_body})
        found == IF ps # <<>> THEN <<ps[1]>> ELSE IF bodies # <<>> THEN <<bodies[1]>>
                 ELSE <<>>
    IN  IF found = <<>> THEN EmptyMap
        ELSE LET computed == found[1].computed
             IN  [ fontSize |-> computed.fontSize, fontWeight |-> computed.fontWeight,
                   lineHeight |-> computed.lineHeight,
                   letterSpacing |-> computed.letterSpacing, color |-> computed.color ]

\* the value _extract_typography returns for a document
ExtractTypography(doc) ==
    LET typography == TypographyLoop(SelectTags(doc.elements, TextTags),
                         [fonts |-> <<>>, sizes |-> <<>>, weights |-> <<>>,
                          lineHeights |-> <<>>, letterSpacings |-> <<>>,
                          textTransforms |-> <<>>])
    IN  [ fonts |-> typography.fonts,
          sizes |-> Sort("numeric", typography.sizes),
          weights |-> Sort("default", typography.weights),
          lineHeights |-> Sort("default", typography.lineHeights),
          letterSpacings |-> typography.letterSpacings,
          textTransforms |-> typography.textTransforms,
          headings |-> HeadingStyles(doc.elements),
          body |-> BodyStyle(doc.elements) ]

\* if (value !== '0px') set.add(value), for each of the listed values in turn
RECURSIVE AddNonZero(_, _)
AddNonZero(set, values) ==
    IF values = <<>> THEN set
    ELSE AddNonZero(IF values[1] # S_0px THEN SetAdd(set, values[1]) ELSE set,
                    Tail(values))

\* the rendered width a container must exceed
ContainerMinWidth == 500

\* the number of container candidates kept
MaxContainers == 5

\* one step of _extract_layout's forEach
LayoutStep(layout, el) ==
    LET computed == el.computed IN
    [ margins |-> AddNonZero(layout.margins,
                     <<computed.marginTop, computed.marginRight, computed.marginBottom,
                       computed.marginLeft>>),
      paddings |-> AddNonZero(layout.paddings,
                     <<computed.paddingTop, computed.paddingRight, computed.paddingBottom,
                       computed.paddingLeft>>),
      gaps |-> IF computed.gap # S_normal /\ computed.gap # S_0px
               THEN SetAdd(layout.gaps, computed.gap) ELSE layout.gaps,
      borderRadii |-> IF computed.borderRadius # S_0px
                      THEN SetAdd(layout.borderRadii, computed.borderRadius)
                      ELSE layout.borderRadii,
      maxWidths |-> IF computed.maxWidth # S_none
                    THEN SetAdd(layout.maxWidths, computed.maxWidth) ELSE layout.maxWidths,
      containers |->
        IF /\ computed.maxWidth # S_none
           /\ computed.marginLeft = S_auto
           /\ computed.marginRight = S_auto
           /\ el.rect.width > ContainerMinWidth
        THEN Append(layout.containers,
                    [ maxWidth |-> computed.maxWidth, padding |-> computed.padding,
                      width |-> NumToString(el.rect.width) \o <<"p","x">> ])
        ELSE layout.containers ]

RECURSIVE LayoutLoop(_, _)
LayoutLoop(elements, layout) ==
    IF elements = <<>> THEN layout
    ELSE LET next == LayoutStep(layout, elements[1])
         IN  IF next = layout THEN LayoutLoop(Tail(elements), layout)
             ELSE LayoutLoop(Tail(elements), next)

\* the order the script lists a spacing set in
SortSpacing(values) == Sort("numeric", values)

\* the value _extract_layout returns for a document
ExtractLayout(doc) ==
    LET layout == LayoutLoop(doc.elements,
                     [margins |-> <<>>, paddings |-> <<>>, gaps |-> <<>>,
                      borderRadii |-> <<>>, maxWidths |-> <<>>, containers |-> <<>>])
    IN  [ margins |-> SortSpacing(layout.margins),
          paddings |-> SortSpacing(layout.paddings),
          gaps |-> SortSpacing(layout.gaps),
          borderRadii |-> SortSpacing(layout.borderRadii),
          maxWidths |-> layout.maxWidths,
          containers |-> Slice(layout.containers, MaxContainers) ]

\* the number of animated elements kept
MaxAnimated == 10

\* one step of _extract_animations' forEach
AnimationsStep(animations, el) ==
    LET computed == el.computed IN
    [ transitions |->
        IF computed.transition # S_no_transition /\ computed.transition # S_none
        THEN SetAdd(animations.transitions, computed.transition)
        ELSE animations.transitions,
      animatedElements |->
        IF computed.animation # S_none /\ el.rect.width > 0 /\ el.rect.height > 0
        THEN Append(animations.animatedElements,
                    [ selector |-> ToLowerCase(el.tagName)
                         \o (IF el.classList # <<>>
                             THEN <<".">> \o Join(el.classList, <<".">>) ELSE <<>>),
                      animation |-> computed.animation ])
        ELSE animations.animatedElements ]

RECURSIVE AnimationsLoop(_, _)
AnimationsLoop(elements, animations) ==
    IF elements = <<>> THEN animations
    ELSE LET next == AnimationsStep(animations, elements[1])
         IN  IF next = animations THEN AnimationsLoop(Tail(elements), animations)
             ELSE AnimationsLoop(Tail(elements), next)

\* for (const rule of sheet.cssRules): the keyframes rules of one accessible sheet
RECURSIVE KeyframesOfRules(_)
KeyframesOfRules(cssRules) ==
    IF cssRules = <<>> THEN <<>>
    ELSE (IF cssRules[1].keyframes
          THEN <<[name |-> cssRules[1].name, rules |-> cssRules[1].rules]>> ELSE <<>>)
           \o KeyframesOfRules(Tail(cssRules))

\* a walk over the stylesheets that ends at the first restricted one
RECURSIVE KeyframesUntilRestricted(_)
KeyframesUntilRestricted(styleSheets) ==
    IF styleSheets = <<>> \/ styleSheets[1].restricted THEN <<>>
    ELSE KeyframesOfRules(styleSheets[1].cssRules)
           \o KeyframesUntilRestricted(Tail(styleSheets))

\* for (const sheet of document.styleSheets) try { ... } catch (e) {}: reading
\* cssRules of a restricted sheet throws before any of its rules is visited
RECURSIVE KeyframesOfSheets(_)
KeyframesOfSheets(styleSheets) ==
    IF styleSheets = <<>> THEN <<>>
    ELSE (IF styleSheets[1].restricted THEN <<>>
          ELSE KeyframesOfRules(styleSheets[1].cssRules))
           \o KeyframesOfSheets(Tail(styleSheets))

\* the value _extract_animations returns for a document
ExtractAnimations(doc) ==
    LET animations == AnimationsLoop(doc.elements,
                         [transitions |-> <<>>, animatedElements |-> <<>>])
    IN  [ transitions |-> animations.transitions,
          keyframes |-> KeyframesOfSheets(doc.styleSheets),
          animatedElements |-> Slice(animations.animatedElements, MaxAnimated) ]

\* one step of _extract_effects' forEach
EffectsStep(effects, computed) ==
    [ boxShadows |-> IF computed.boxShadow # S_none
                     THEN SetAdd(effects.boxShadows, computed.boxShadow)
                     ELSE effects.boxShadows,
      textShadows |-> IF computed.textShadow # S_none
                      THEN SetAdd(effects.textShadows, computed.textShadow)
                      ELSE effects.textShadows,
      filters |-> IF computed.filter # S_none
                  THEN SetAdd(effects.filters, computed.filter) ELSE effects.filters,
      transforms |-> IF computed.transform # S_none
                     THEN SetAdd(effects.transforms, computed.transform)
                     ELSE effects.transforms,
      opacities |-> IF computed.opacity # S_1
                    THEN SetAdd(effects.opacities, computed.opacity)
                    ELSE effects.opacities ]

RECURSIVE EffectsLoop(_, _)
EffectsLoop(elements, effects) ==
    IF elements = <<>> THEN effects
    ELSE LET next == EffectsStep(effects, elements[1].computed)
         IN  IF next = effects THEN EffectsLoop(Tail(elements), effects)
             ELSE EffectsLoop(Tail(elements), next)

\* the value _extract_effects returns for a document
ExtractEffects(doc) ==
    LET effects == EffectsLoop(doc.elements,
                      [boxShadows |-> <<>>, textShadows |-> <<>>, filters |-> <<>>,
                       transforms |-> <<>>, opacities |-> <<>>])
    IN  [ boxShadows |-> effects.boxShadows,
          textShadows |-> effects.textShadows,
          filters |-> effects.filters,
          transforms |-> effects.transforms,
          opacities |-> Sort("default", effects.opacities) ]

----------------------------------------------------------------------------
(* InteractiveStateProbe: the scripts of _capture_interactive_states.      *)

\* 'a, button, input, select, textarea, [onclick], [tabindex]'
InteractiveTags ==
    { T_a, T_button, T_input, <<"s","e","l","e","c","t">>,
      <<"t","e","x","t","a","r","e","a">> }
IsInteractive(el) ==
    ToLowerCase(el.tagName) \in InteractiveTags \/ el.onclick \/ el.tabindex

\* the number of classes the probe's selector keeps
SelectorClasses == 3

\* the selector the probe records: tag, id and the first three classes
ProbeSelector(el) ==
    ToLowerCase(el.tagName)
      \o (IF Truthy(el.id) THEN <<"#">> \o el.id ELSE <<>>)
      \o (IF el.classList # <<>>
          THEN <<".">> \o Join(Slice(el.classList, SelectorClasses), <<".">>) ELSE <<>>)

\* the 'default' record of a state
DefaultState(computed) ==
    [ backgroundColor |-> computed.backgroundColor, color |-> computed.color,
      borderColor |-> computed.borderColor, boxShadow |-> computed.boxShadow,
      transform |-> computed.transform, opacity |-> computed.opacity,
      cursor |-> computed.cursor, transition |-> computed.transition ]

\* the record the hover script returns for an element
HoverState(computed) ==
    [ backgroundColor |-> computed.backgroundColor, color |-> computed.color,
      borderColor |-> computed.borderColor, boxShadow |-> computed.boxShadow,
      transform |-> computed.transform, opacity |-> computed.opacity ]

\* a probe that takes every matched element for visible
AnyRect(el) == TRUE

\* whether an element has a non-zero bounding box
IsVisible(el) == el.rect.width > 0 /\ el.rect.height > 0

\* interactive.forEach((el, idx) => ...): the states of the visible ones among the
\* matched elements, idx counting the matched elements from 0
RECURSIVE StatesFrom(_, _)
StatesFrom(interactive, idx) ==
    IF idx >= Len(interactive) THEN <<>>
    ELSE LET el == interactive[idx + 1]
         IN  (IF IsVisible(el)
              THEN << [ selector |-> ProbeSelector(el), index |-> idx,
                        position |-> el.rect, default |-> DefaultState(el.computed) ] >>
              ELSE <<>>)
               \o StatesFrom(interactive, idx + 1)

RECURSIVE SelectInteractive(_)
SelectInteractive(elements) ==
    IF elements = <<>> THEN <<>>
    ELSE (IF IsInteractive(elements[1]) THEN <<elements[1]>> ELSE <<>>)
           \o SelectInteractive(Tail(elements))

\* the value the selection script returns for a document
InteractiveStates(doc) == StatesFrom(SelectInteractive(doc.elements), 0)

\* the number of interactive elements probed
MaxHover == 10

\* The centre of a position, in half pixels: (2 * (left + width / 2),
\* 2 * (top + height / 2)).
Centre2(position) ==
    [ x |-> 2 * position.left + position.width, y |-> 2 * position.top + position.height ]

\* whether a point given in half pixels lies in a rect
Contains2(rect, pt) ==
    /\ 2 * rect.left <= pt.x /\ pt.x < 2 * (rect.left + rect.width)
    /\ 2 * rect.top <= pt.y /\ pt.y < 2 * (rect.top + rect.height)

\* the element painted first at a point instead of the topmost one
BottommostAt(doc, pt, vp) ==
    LET at == { k \in 1..Len(doc.elements) : Contains2(doc.elements[k].rect, pt) }
    IN  IF pt.x < 0 \/ pt.y < 0 \/ pt.x >= 2 * vp.width \/ pt.y >= 2 * vp.height \/ at = {}
        THEN 0
        ELSE CHOOSE k \in at : \A j \in at : j >= k

\* document.elementFromPoint: the position in the document of the topmost element at
\* the point, a later element painting over an earlier one; 0 (null) when the point
\* is outside the viewport or no element is there
ElementFromPoint(doc, pt, vp) ==
    LET at == { k \in 1..Len(doc.elements) : Contains2(doc.elements[k].rect, pt) }
    IN  IF pt.x < 0 \/ pt.y < 0 \/ pt.x >= 2 * vp.width \/ pt.y >= 2 * vp.height \/ at = {}
        THEN 0
        ELSE CHOOSE k \in at : \A j \in at : j <= k

\* what the hover script returns at a point: <<>> for null, else the one-element
\* sequence of the style of the element under the pointer
HoverAt(doc, pt, vp) ==
    LET k == ElementFromPoint(doc, pt, vp)
    IN  IF k = 0 THEN <<>> ELSE <<HoverState(doc.elements[k].hover)>>

----------------------------------------------------------------------------
(* ComponentClassifier: _identify_components.                              *)

T_select == <<"s","e","l","e","c","t">>
T_textarea == <<"t","e","x","t","a","r","e","a">>
T_nav == <<"n","a","v">>
T_form == <<"f","o","r","m">>
T_img == <<"i","m","g">>
T_article == <<"a","r","t","i","c","l","e">>

HasClass(el, name) == name \in Range(el.classList)

\* the class attribute contains the text: [class*="..."]
ClassContains(el, text) == Includes(Join(el.classList, <<" ">>), text)

\* 'button, [role="button"], a.btn, a.button, input[type="button"], input[type="submit"]'
IsButton(el) ==
    LET tag == ToLowerCase(el.tagName) IN
    \/ tag = T_button
    \/ el.role = T_button
    \/ tag = T_a /\ (HasClass(el, <<"b","t","n">>) \/ HasClass(el, T_button))
    \/ tag = T_input /\ el.type \in {T_button, <<"s","u","b","m","i","t">>}

\* '[class*="card"], .article, article, [class*="post"]'
IsCard(el) ==
    \/ ClassContains(el, <<"c","a","r","d">>)
    \/ HasClass(el, T_article)
    \/ ToLowerCase(el.tagName) = T_article
    \/ ClassContains(el, <<"p","o","s","t">>)

\* 'nav, [role="navigation"], header nav'
IsNavbar(el) ==
    ToLowerCase(el.tagName) = T_nav \/ el.role = <<"n","a","v","i","g","a","t","i","o","n">>

\* 'form, input, select, textarea'
IsFormControl(el) == ToLowerCase(el.tagName) \in {T_form, T_input, T_select, T_textarea}

\* the caps of the component lists, and the size a card must exceed
MaxButtons == 5
MaxCards == 3
MaxNavbars == 2
MaxForms == 5
CardMinWidth == 200
CardMinHeight == 100

\* the length the button text is cut to
ButtonTextLength == 30

\* String.prototype.trim, for text padded with spaces
RECURSIVE TrimEnd(_)
TrimEnd(s) ==
    IF s # <<>> /\ s[Len(s)] = " " THEN TrimEnd(SubSeq(s, 1, Len(s) - 1)) ELSE s
Trim(s) == TrimEnd(SubSeq(s, 1 + SpaceRun(s, 1), Len(s)))

ButtonSample(el) ==
    [ text |-> Slice(Trim(el.textContent), ButtonTextLength),
      styles |-> [ backgroundColor |-> el.computed.backgroundColor,
                   color |-> el.computed.color, padding |-> el.computed.padding,
                   borderRadius |-> el.computed.borderRadius,
                   border |-> el.computed.border, fontSize |-> el.computed.fontSize,
                   fontWeight |-> el.computed.fontWeight ] ]

CardSample(el) ==
    [ styles |-> [ backgroundColor |-> el.computed.backgroundColor,
                   borderRadius |-> el.computed.borderRadius,
                   boxShadow |-> el.computed.boxShadow, padding |-> el.computed.padding,
                   border |-> el.computed.border ] ]

NavbarSample(el) ==
    [ styles |-> [ backgroundColor |-> el.computed.backgroundColor,
                   height |-> el.computed.height, position |-> el.computed.position,
                   boxShadow |-> el.computed.boxShadow, padding |-> el.computed.padding ] ]

FormSample(el) ==
    [ type |-> ToLowerCase(el.tagName),
      styles |-> [ backgroundColor |-> el.computed.backgroundColor,
                   border |-> el.computed.border,
                   borderRadius |-> el.computed.borderRadius,
                   padding |-> el.computed.padding, fontSize |-> el.computed.fontSize ] ]

CardSized(el) == el.rect.width > CardMinWidth /\ el.rect.height > CardMinHeight

\* forEach((el, idx) => { if (idx < cap) ... }): the matched elements the loop body
\* acts on
FirstMatches(matched, cap) == Slice(matched, cap)

ButtonSamples(elements) ==
    LET acted == FirstMatches(SelectSeq(elements, IsButton), MaxButtons)
    IN  [i \in 1..Len(acted) |-> ButtonSample(acted[i])]

\* of the first MaxCards matches, those that pass the size filter
CardSamples(elements) ==
    LET acted == SelectSeq(FirstMatches(SelectSeq(elements, IsCard), MaxCards), CardSized)
    IN  [i \in 1..Len(acted) |-> CardSample(acted[i])]

NavbarSamples(elements) ==
    LET acted == FirstMatches(SelectSeq(elements, IsNavbar), MaxNavbars)
    IN  [i \in 1..Len(acted) |-> NavbarSample(acted[i])]

FormSamples(elements) ==
    LET acted == FirstMatches(SelectSeq(elements, IsFormControl), MaxForms)
    IN  [i \in 1..Len(acted) |-> FormSample(acted[i])]

\* the value _identify_components returns for a document
IdentifyComponents(doc) ==
    [ buttons |-> ButtonSamples(doc.elements),
      cards |-> CardSamples(doc.elements),
      navbars |-> NavbarSamples(doc.elements),
      forms |-> FormSamples(doc.elements),
      modals |-> <<>>, badges |-> <<>>, alerts |-> <<>> ]

----------------------------------------------------------------------------
(* UXPatternAnalyzer: _analyze_ux_patterns.                                *)

\* the number of sticky or fixed elements kept
MaxSticky == 5

RECURSIVE CursorStyles(_, _)
CursorStyles(elements, set) ==
    IF elements = <<>> THEN set
    ELSE CursorStyles(Tail(elements),
                      IF elements[1].computed.cursor # S_auto
                      THEN SetAdd(set, elements[1].computed.cursor) ELSE set)

IsSticky(el) ==
    el.computed.position \in {<<"s","t","i","c","k","y">>, <<"f","i","x","e","d">>}

StickySample(el) ==
    [ tagName |-> ToLowerCase(el.tagName), position |-> el.computed.position,
      top |-> el.computed.top, zIndex |-> el.computed.zIndex ]

HasAriaLabel(el) == el.ariaLabel
HasAriaDescribedby(el) == el.ariaDescribedby
HasRole(el) == Truthy(el.role)
IsImgWithAlt(el) == ToLowerCase(el.tagName) = T_img /\ el.alt

\* the value _analyze_ux_patterns returns for a document whose first element is the
\* document element
AnalyzeUxPatterns(doc) ==
    [ scrollBehavior |-> IF doc.elements = <<>> THEN S_auto
                         ELSE doc.elements[1].computed.scrollBehavior,
      focusVisible |-> <<>>,
      cursorStyles |-> CursorStyles(doc.elements, <<>>),
      interactiveElements |-> Len(SelectSeq(doc.elements, IsInteractive)),
      accessibilityFeatures |->
        [ ariaLabels |-> Len(SelectSeq(doc.elements, HasAriaLabel)),
          ariaDescriptions |-> Len(SelectSeq(doc.elements, HasAriaDescribedby)),
          roles |-> Len(SelectSeq(doc.elements, HasRole)),
          alts |-> Len(SelectSeq(doc.elements, IsImgWithAlt)) ],
      stickyElements |->
        LET sticky == SelectSeq(doc.elements, IsSticky)
        IN  Slice([i \in 1..Len(sticky) |-> StickySample(sticky[i])], MaxSticky) ]

----------------------------------------------------------------------------
(* CSS extraction: _extract_css.                                           *)

\* the inline styles' contributions: each non-empty content under its header
RECURSIVE InlineCss(_)
InlineCss(inlineStyles) ==
    IF inlineStyles = <<>> THEN <<>>
    ELSE (IF Truthy(inlineStyles[1])
          THEN << <<"/","*"," ","I","n","l","i","n","e"," ","S","t","y","l","e"," ","*","/","\n">>
                    \o inlineStyles[1] >>
          ELSE <<>>)
           \o InlineCss(Tail(inlineStyles))

\* linked stylesheets read until the first fetch that raises
RECURSIVE LinkedCssUntilFailure(_)
LinkedCssUntilFailure(cssLinks) ==
    IF cssLinks = <<>> \/ cssLinks[1].fetch = "raise" THEN <<>>
    ELSE (IF cssLinks[1].fetch = "ok"
          THEN << <<"/","*"," ","F","r","o","m",":"," ">> \o cssLinks[1].href
                    \o <<" ","*","/","\n">> \o cssLinks[1].text >>
          ELSE <<>>)
           \o LinkedCssUntilFailure(Tail(cssLinks))

\* The linked stylesheets' contributions. A link's fetch is "ok" (a successful
\* response), "not_ok" (a response that is not ok) or "raise" (request.get raises).
RECURSIVE LinkedCss(_)
LinkedCss(cssLinks) ==
    IF cssLinks = <<>> THEN <<>>
    ELSE (IF cssLinks[1].fetch = "ok"
          THEN << <<"/","*"," ","F","r","o","m",":"," ">> \o cssLinks[1].href
                    \o <<" ","*","/","\n">> \o cssLinks[1].text >>
          ELSE <<>>)
           \o LinkedCss(Tail(cssLinks))

\* the warnings _extract_css echoes: the href of each link whose fetch raised
RECURSIVE CssWarnings(_)
CssWarnings(cssLinks) ==
    IF cssLinks = <<>> THEN <<>>
    ELSE (IF cssLinks[1].fetch = "raise" THEN <<cssLinks[1].href>> ELSE <<>>)
           \o CssWarnings(Tail(cssLinks))

\* the value _extract_css returns for a document
ExtractCss(doc) == Join(InlineCss(doc.inlineStyles) \o LinkedCss(doc.cssLinks), <<"\n","\n">>)

----------------------------------------------------------------------------
(* ResponsiveSampler: _test_responsive.                                    *)

\* the breakpoints taken from the widest to the narrowest
BreakpointsDesktopFirst ==
    << [name |-> "desktop", width |-> 1920, height |-> 1080],
       [name |-> "tablet", width |-> 768, height |-> 1024],
       [name |-> "mobile", width |-> 375, height |-> 812] >>

\* breakpoints = [...]
Breakpoints ==
    << [name |-> "mobile", width |-> 375, height |-> 812],
       [name |-> "tablet", width |-> 768, height |-> 1024],
       [name |-> "desktop", width |-> 1920, height |-> 1080] >>

\* output_dir / f"responsive_{bp['name']}.png"
ResponsiveScreenshot(name) ==
    CASE name = "mobile" -> "responsive_mobile.png"
      [] name = "tablet" -> "responsive_tablet.png"
      [] name = "desktop" -> "responsive_desktop.png"

\* what layout_script measures in a document shown in viewport vp, for a body that
\* fills the viewport's width
MeasureLayout(doc, vp) ==
    [ viewportWidth |-> vp.width, viewportHeight |-> vp.height,
      scrollHeight |-> IF doc.scrollHeight > vp.height THEN doc.scrollHeight ELSE vp.height,
      bodyWidth |-> vp.width ]

\* a reset to the default size instead of the configured one
DefaultViewport(extractor) == [width |-> 1600, height |-> 1200]

\* the size the viewport is reset to after the last breakpoint
OriginalViewport(extractor) ==
    [width |-> extractor.viewport_width, height |-> extractor.viewport_height]

----------------------------------------------------------------------------
(* main and DesignExtractor.extract_all.                                   *)

\* the steps with the probe moved behind the five collectors
StepsProbeLater ==
    << "Launch", "Navigate", "BaseScreenshots", "ExtractHTML", "ExtractCSS",
       "StyleSampler", "ColorPalette", "Typography", "Layout", "Animation", "Effects",
       "InteractiveStateProbe", "ComponentClassifier", "UXPatternAnalyzer",
       "ResponsiveSampler", "CloseBrowser", "Aggregate", "Save", "GenerateGuide",
       "WriteGuide", "Exit" >>

\* the steps with the base screenshots taken before the page is loaded
StepsScreenshotFirst ==
    << "Launch", "BaseScreenshots", "Navigate", "ExtractHTML", "ExtractCSS",
       "StyleSampler", "InteractiveStateProbe", "ColorPalette", "Typography", "Layout",
       "Animation", "Effects", "ComponentClassifier", "UXPatternAnalyzer",
       "ResponsiveSampler", "CloseBrowser", "Aggregate", "Save", "GenerateGuide",
       "WriteGuide", "Exit" >>

\* the steps with the data files written before the responsive pass
StepsSaveEarly ==
    << "Launch", "Navigate", "BaseScreenshots", "ExtractHTML", "ExtractCSS",
       "StyleSampler", "InteractiveStateProbe", "ColorPalette", "Typography", "Layout",
       "Animation", "Effects", "ComponentClassifier", "UXPatternAnalyzer", "Save",
       "ResponsiveSampler", "CloseBrowser", "Aggregate", "GenerateGuide",
       "WriteGuide", "Exit" >>

\* the steps of a run in the order the code takes them
Steps ==
    << "Launch", "Navigate", "BaseScreenshots", "ExtractHTML", "ExtractCSS",
       "StyleSampler", "InteractiveStateProbe", "ColorPalette", "Typography", "Layout",
       "Animation", "Effects", "ComponentClassifier", "UXPatternAnalyzer",
       "ResponsiveSampler", "CloseBrowser", "Aggregate", "Save", "GenerateGuide",
       "WriteGuide", "Exit" >>

\* the step that follows a step
After(step) == Steps[(CHOOSE i \in 1..Len(Steps) : Steps[i] = step) + 1]

\* the exit status main ends with when extract_all or the guide raises
ErrorExitStatus == 1

\* the locals of extract_all before any stage has returned
NoLocals ==
    [ interactive_states |-> <<>>, colors |-> <<>>, typography |-> <<>>,
      layout |-> <<>>, animations |-> <<>>, effects |-> <<>>, components |-> <<>>,
      ux_patterns |-> <<>>, responsive |-> <<>> ]

\* a snapshot that stores the UX patterns under the components' key as well
CompileDataMixed(extractor, loc) ==
    [ url |-> extractor.url,
      viewport |-> [width |-> extractor.viewport_width,
                    height |-> extractor.viewport_height],
      colors |-> loc.colors[1],
      typography |-> loc.typography[1],
      layout |-> loc.layout[1],
      animations |-> loc.animations[1],
      effects |-> loc.effects[1],
      interactive_states |-> loc.interactive_states[1],
      components |-> loc.ux_patterns[1],
      ux_patterns |-> loc.ux_patterns[1],
      responsive |-> loc.responsive[1],
      screenshots |-> [ viewport |-> "viewport_screenshot.png",
                        fullpage |-> "fullpage_screenshot.png" ] ]

\* data = {...}: the snapshot compiled from the extractor's fields and the locals
CompileData(extractor, loc) ==
    [ url |-> extractor.url,
      viewport |-> [width |-> extractor.viewport_width,
                    height |-> extractor.viewport_height],
      colors |-> loc.colors[1],
      typography |-> loc.typography[1],
      layout |-> loc.layout[1],
      animations |-> loc.animations[1],
      effects |-> loc.effects[1],
      interactive_states |-> loc.interactive_states[1],
      components |-> loc.components[1],
      ux_patterns |-> loc.ux_patterns[1],
      responsive |-> loc.responsive[1],
      screenshots |-> [ viewport |-> "viewport_screenshot.png",
                        fullpage |-> "fullpage_screenshot.png" ] ]

\* what generate_design_guide reads of the snapshot to build the guide
GenerateDesignGuide(d) ==
    [ url |-> d.url, viewport |-> d.viewport, screenshots |-> d.screenshots,
      responsive |-> d.responsive, colors |-> d.colors, typography |-> d.typography,
      layout |-> d.layout, animations |-> d.animations, effects |-> d.effects,
      interactive_states |-> d.interactive_states, components |-> d.components,
      ux_patterns |-> d.ux_patterns ]

\* a renderer that cuts the snapshot's list of text colors down in place
DataAfterTruncatingGuide(d) == [d EXCEPT !.colors.textColors = Slice(@, 1)]

\* the snapshot after generate_design_guide has run on it: the function assigns to no
\* key of data and every list it shortens is a slice copy, so the snapshot is as it was
DataAfterGuide(d) == d

probeVars == <<interactive_elements, hover_states, hover_i, mouse_moves>>
respVars == <<responsive_data, bp_i>>

\* a session created at the size of a phone
PhoneViewport(extractor) == [width |-> 375, height |-> 812]

\* browser.new_context(viewport={...}): the size the session is created with
ContextViewport(extractor) ==
    [width |-> extractor.viewport_width, height |-> extractor.viewport_height]

\* A call of the step raises: the exception leaves extract_all through the with
\* block, which closes the browser, and main's except clause ends the process.
Raise(step) ==
    /\ raised' = Append(raised, step)
    /\ browser' = "closed"
    /\ pc' = "failed"
    /\ exit_status' = ErrorExitStatus
    /\ UNCHANGED <<page, self, viewport, files, warnings, probeVars, respVars, locals,
                   data, saved_data, guide_content>>

\* a step that is entered now
Enter(step) == pc = step /\ trace' = Append(trace, step)

\* browser = p.chromium.launch(); context = browser.new_context(viewport=...);
\* page = context.new_page()
Launch ==
    /\ Enter("Launch")
    /\ browser' = "open"
    /\ viewport' = ContextViewport(self)
    /\ pc' = After("Launch")
    /\ UNCHANGED <<page, self, raised, files, warnings, probeVars, respVars, locals,
                   data, saved_data, guide_content, exit_status>>

\* page.goto(self.url, wait_until="networkidle"); page.wait_for_timeout(2000)
Navigate ==
    /\ Enter("Navigate")
    /\ \/ /\ pc' = After("Navigate")
          /\ UNCHANGED <<page, self, raised, browser, viewport, files, warnings,
                         probeVars, respVars, locals, data, saved_data,
                         guide_content, exit_status>>
       \/ Raise("Navigate")

\* the two base screenshots
BaseScreenshots ==
    /\ Enter("BaseScreenshots")
    /\ \/ /\ files' = files \o <<"viewport_screenshot.png", "fullpage_screenshot.png">>
          /\ pc' = After("BaseScreenshots")
          /\ UNCHANGED <<page, self, raised, browser, viewport, warnings, probeVars,
                         respVars, locals, data, saved_data, guide_content, exit_status>>
       \/ Raise("BaseScreenshots")

\* self.html_content = page.content()
ExtractHTML ==
    /\ Enter("ExtractHTML")
    /\ \/ /\ self' = [self EXCEPT !.html_content = page.html]
          /\ pc' = After("ExtractHTML")
          /\ UNCHANGED <<page, raised, browser, viewport, files, warnings, probeVars,
                         respVars, locals, data, saved_data, guide_content, exit_status>>
       \/ Raise("ExtractHTML")

\* self.css_content = self._extract_css(page)
ExtractCSS ==
    /\ Enter("ExtractCSS")
    /\ \/ /\ self' = [self EXCEPT !.css_content = ExtractCss(page)]
          /\ warnings' = warnings \o CssWarnings(page.cssLinks)
          /\ pc' = After("ExtractCSS")
          /\ UNCHANGED <<page, raised, browser, viewport, files, probeVars, respVars,
                         locals, data, saved_data, guide_content, exit_status>>
       \/ Raise("ExtractCSS")

\* self.computed_styles = self._extract_computed_styles(page)
StyleSampler ==
    /\ Enter("StyleSampler")
    /\ \/ /\ self' = [self EXCEPT !.computed_styles = ExtractComputedStyles(page)]
          /\ pc' = After("StyleSampler")
          /\ UNCHANGED <<page, raised, browser, viewport, files, warnings, probeVars,
                         respVars, locals, data, saved_data, guide_content, exit_status>>
       \/ Raise("StyleSampler")

\* interactive_elements = page.evaluate(script); hover_states = []
ProbeSelect ==
    /\ Enter("InteractiveStateProbe")
    /\ \/ /\ interactive_elements' = InteractiveStates(page)
          /\ hover_states' = <<>>
          /\ hover_i' = 0
          /\ pc' = "hover_loop"
          /\ UNCHANGED <<page, self, raised, browser, viewport, mouse_moves, files,
                         warnings, respVars, locals, data, saved_data,
                         guide_content, exit_status>>
       \/ Raise("InteractiveStateProbe")

\* a hover loop over every selected element
ProbedAll(elements) == elements

\* the elements the hover loop iterates over: interactive_elements[:10]
Probed(elements) == Slice(elements, MaxHover)

\* an except clause that discards the samples recorded so far
SamplesLostOnError(samples) == <<>>

\* except Exception: continue: the samples recorded so far are left as they are
SamplesAfterError(samples) == samples

\* One iteration of the hover loop. The pointer is moved to the element's centre;
\* then the move, the wait or the evaluation raises and the except clause
\* continues with the next element, or the hover script's result is recorded when
\* it is not null.
ProbeHover ==
    /\ pc = "hover_loop"
    /\ hover_i < Len(Probed(interactive_elements))
    /\ LET elem == Probed(interactive_elements)[hover_i + 1]
           pt == Centre2(elem.position)
           hover_state == HoverAt(page, pt, viewport)
       IN  /\ mouse_moves' = Append(mouse_moves, pt)
           /\ \/ hover_states' =
                   IF hover_state # <<>>
                   THEN Append(hover_states,
                               [ selector |-> elem.selector, hover |-> hover_state[1],
                                 default |-> elem.default ])
                   ELSE hover_states
              \/ hover_states' = SamplesAfterError(hover_states)
    /\ hover_i' = hover_i + 1
    /\ UNCHANGED <<page, self, pc, trace, raised, browser, viewport, files, warnings,
                   interactive_elements, respVars, locals, data, saved_data, guide_content,
                   exit_status>>

\* a probe that takes the hover screenshot whatever was sampled
HoverScreenshotAlways(samples) == <<"interactive_hover.png">>

\* if hover_states: page.screenshot(...): the files written after the loop
HoverScreenshot(samples) ==
    IF samples # <<>> THEN <<"interactive_hover.png">> ELSE <<>>

\* after the loop: the hover screenshot when a sample was recorded, and the return
ProbeFinish ==
    /\ pc = "hover_loop"
    /\ hover_i >= Len(Probed(interactive_elements))
    /\ \/ /\ files' = files \o HoverScreenshot(hover_states)
          /\ locals' = [locals EXCEPT !.interactive_states =
                            << [ all_interactive |-> interactive_elements,
                                 hover_samples |-> hover_states ] >>]
          /\ pc' = After("InteractiveStateProbe")
          /\ UNCHANGED <<page, self, trace, raised, browser, viewport, warnings,
                         probeVars, respVars, data, saved_data, guide_content, exit_status>>
       \/ /\ hover_states # <<>>
          /\ Raise("InteractiveStateProbe")
          /\ UNCHANGED trace

\* a stage that evaluates one script and keeps its value in a local
Collect(step, name, value) ==
    /\ Enter(step)
    /\ \/ /\ locals' = [locals EXCEPT ![name] = <<value>>]
          /\ pc' = After(step)
          /\ UNCHANGED <<page, self, raised, browser, viewport, files, warnings,
                         probeVars, respVars, data, saved_data, guide_content, exit_status>>
       \/ Raise(step)

ColorPalette == Collect("ColorPalette", "colors", ExtractColors(page))
Typography == Collect("Typography", "typography", ExtractTypography(page))
Layout == Collect("Layout", "layout", ExtractLayout(page))
Animation == Collect("Animation", "animations", ExtractAnimations(page))
Effects == Collect("Effects", "effects", ExtractEffects(page))
ComponentClassifier == Collect("ComponentClassifier", "components", IdentifyComponents(page))
UXPatternAnalyzer == Collect("UXPatternAnalyzer", "ux_patterns", AnalyzeUxPatterns(page))

\* responsive_data = {}, before the first breakpoint
RespEnter ==
    /\ Enter("ResponsiveSampler")
    /\ responsive_data' = EmptyMap
    /\ bp_i' = 0
    /\ pc' = "resp_set"
    /\ UNCHANGED <<page, self, raised, browser, viewport, files, warnings, probeVars,
                   locals, data, saved_data, guide_content, exit_status>>

\* page.set_viewport_size(bp); page.wait_for_timeout(500)
RespSetViewport ==
    /\ pc = "resp_set"
    /\ \/ /\ viewport' = [width |-> Breakpoints[bp_i + 1].width,
                          height |-> Breakpoints[bp_i + 1].height]
          /\ pc' = "resp_shot"
          /\ UNCHANGED <<page, self, trace, raised, browser, files, warnings, probeVars,
                         respVars, locals, data, saved_data, guide_content, exit_status>>
       \/ Raise("ResponsiveSampler") /\ UNCHANGED trace

\* page.screenshot(path=str(screenshot_path))
RespScreenshot ==
    /\ pc = "resp_shot"
    /\ \/ /\ files' = Append(files, ResponsiveScreenshot(Breakpoints[bp_i + 1].name))
          /\ pc' = "resp_measure"
          /\ UNCHANGED <<page, self, trace, raised, browser, viewport, warnings,
                         probeVars, respVars, locals, data, saved_data,
                         guide_content, exit_status>>
       \/ Raise("ResponsiveSampler") /\ UNCHANGED trace

\* responsive_data[bp['name']] = {...}, and the loop's next turn or its end
RespMeasure ==
    /\ pc = "resp_measure"
    /\ \/ /\ responsive_data' =
                Put(responsive_data, Breakpoints[bp_i + 1].name,
                    [ viewport |-> Breakpoints[bp_i + 1],
                      layout |-> MeasureLayout(page, viewport),
                      screenshot |-> ResponsiveScreenshot(Breakpoints[bp_i + 1].name) ])
          /\ bp_i' = bp_i + 1
          /\ pc' = IF bp_i + 1 < Len(Breakpoints) THEN "resp_set" ELSE "resp_reset"
          /\ UNCHANGED <<page, self, trace, raised, browser, viewport, files, warnings,
                         probeVars, locals, data, saved_data, guide_content, exit_status>>
       \/ Raise("ResponsiveSampler") /\ UNCHANGED trace

\* page.set_viewport_size(original); return responsive_data
RespReset ==
    /\ pc = "resp_reset"
    /\ \/ /\ viewport' = OriginalViewport(self)
          /\ locals' = [locals EXCEPT !.responsive = <<responsive_data>>]
          /\ pc' = After("ResponsiveSampler")
          /\ UNCHANGED <<page, self, trace, raised, browser, files, warnings, probeVars,
                         respVars, data, saved_data, guide_content, exit_status>>
       \/ Raise("ResponsiveSampler") /\ UNCHANGED trace

\* browser.close(), and the end of the with block
CloseBrowser ==
    /\ Enter("CloseBrowser")
    /\ browser' = "closed"
    /\ pc' = After("CloseBrowser")
    /\ UNCHANGED <<page, self, raised, viewport, files, warnings, probeVars, respVars,
                   locals, data, saved_data, guide_content, exit_status>>

\* data = {...}
Aggregate ==
    /\ Enter("Aggregate")
    /\ data' = <<CompileData(self, locals)>>
    /\ pc' = After("Aggregate")
    /\ UNCHANGED <<page, self, raised, browser, viewport, files, warnings, probeVars,
                   respVars, locals, saved_data, guide_content, exit_status>>

\* the four data files, and return data; design_data.json holds json.dumps(data),
\* kept here as the snapshot that text encodes
Save ==
    /\ Enter("Save")
    /\ files' = files \o <<"extracted.html", "extracted.css", "computed_styles.json",
                           "design_data.json">>
    /\ saved_data' = data
    /\ pc' = After("Save")
    /\ UNCHANGED <<page, self, raised, browser, viewport, warnings, probeVars, respVars,
                   locals, data, guide_content, exit_status>>

\* guide_content = generate_design_guide(data, output_dir); the function is handed
\* the snapshot itself, so what it does to it is done to main's data
GenerateGuide ==
    /\ Enter("GenerateGuide")
    /\ guide_content' = <<GenerateDesignGuide(data[1])>>
    /\ data' = <<DataAfterGuide(data[1])>>
    /\ pc' = After("GenerateGuide")
    /\ UNCHANGED <<page, self, raised, browser, viewport, files, warnings, probeVars,
                   respVars, locals, saved_data, exit_status>>

\* guide_path.write_text(guide_content)
WriteGuide ==
    /\ Enter("WriteGuide")
    /\ files' = Append(files, "design-guide.md")
    /\ pc' = After("WriteGuide")
    /\ UNCHANGED <<page, self, raised, browser, viewport, warnings, probeVars, respVars,
                   locals, data, saved_data, guide_content, exit_status>>

\* main returns: the process ends with status 0
Exit ==
    /\ Enter("Exit")
    /\ exit_status' = 0
    /\ pc' = "done"
    /\ UNCHANGED <<page, self, raised, browser, viewport, files, warnings, probeVars,
                   respVars, locals, data, saved_data, guide_content>>

Next ==
    \/ Launch \/ Navigate \/ BaseScreenshots \/ ExtractHTML \/ ExtractCSS
    \/ StyleSampler \/ ProbeSelect \/ ProbeHover \/ ProbeFinish
    \/ ColorPalette \/ Typography \/ Layout \/ Animation \/ Effects
    \/ ComponentClassifier \/ UXPatternAnalyzer
    \/ RespEnter \/ RespSetViewport \/ RespScreenshot \/ RespMeasure \/ RespReset
    \/ CloseBrowser \/ Aggregate \/ Save \/ GenerateGuide \/ WriteGuide \/ Exit

----------------------------------------------------------------------------
(* The runs the model explores: documents, viewports, initial states.      *)

S_gradient == <<"l","i","n","e","a","r","-","g","r","a","d","i","e","n","t","(","r","e","d",","," ","b","l","u","e",")">>   \* 'linear-gradient(red, blue)'
S_shadow_clear == <<"r","g","b","a","(","0",","," ","0",","," ","0",","," ","0",")"," ","0","p","x"," ","0","p","x"," ","0","p","x"," ","0","p","x">>   \* 'rgba(0, 0, 0, 0) 0px 0px 0px 0px'
S_shadow_ring == <<"r","g","b","a","(","0",","," ","0",","," ","0",","," ","0",")"," ","0","p","x"," ","0","p","x"," ","0","p","x"," ","0","p","x",","," ","r","g","b","a","(","0",","," ","0",","," ","0",","," ","0",".","1",")"," ","0","p","x"," ","1","p","x"," ","3","p","x"," ","0","p","x">>   \* 'rgba(0, 0, 0, 0) 0px 0px 0px 0px, rgba(0, 0, 0, 0.1) 0px 1px 3px 0px'
S_shadow_soft == <<"r","g","b","a","(","0",","," ","0",","," ","0",","," ","0",".","1",")"," ","0","p","x"," ","1","p","x"," ","3","p","x"," ","0","p","x">>   \* 'rgba(0, 0, 0, 0.1) 0px 1px 3px 0px'
S_9px == <<"9","p","x">>   \* '9px'
S_12px == <<"1","2","p","x">>   \* '12px'
S_100px == <<"1","0","0","p","x">>   \* '100px'
S_8px == <<"8","p","x">>   \* '8px'
S_minus4px == <<"-","4","p","x">>   \* '-4px'
S_24px == <<"2","4","p","x">>   \* '24px'
S_700 == <<"7","0","0">>   \* '700'
S_1000 == <<"1","0","0","0">>   \* '1000'
S_half == <<"0",".","5">>   \* '0.5'
S_quarter == <<"0",".","2","5">>   \* '0.25'
S_uppercase == <<"u","p","p","e","r","c","a","s","e">>   \* 'uppercase'
S_fade == <<"o","p","a","c","i","t","y"," ","0",".","3","s"," ","e","a","s","e"," ","0","s">>   \* 'opacity 0.3s ease 0s'
S_pointer == <<"p","o","i","n","t","e","r">>   \* 'pointer'
S_960px == <<"9","6","0","p","x">>   \* '960px'

\* --viewport-width / --viewport-height: the default and another size
Viewports == { [width |-> 1600, height |-> 1200], [width |-> 800, height |-> 600] }

T_HTML == <<"H","T","M","L">>
T_DIV == <<"D","I","V">>
T_A == <<"A">>
T_P == <<"P">>
T_SPAN == <<"S","P","A","N">>
T_BUTTON == <<"B","U","T","T","O","N">>
T_INPUT == <<"I","N","P","U","T">>
C_a == <<"a">>
C_a_2 == <<"a","_","2">>
C_b == <<"b">>
C_card == <<"c","a","r","d">>
C_btn == <<"b","t","n">>

\* the document element, two viewports tall
HtmlElement ==
    [El(T_HTML, <<>>, <<>>) EXCEPT
        !.rect = [top |-> 0, left |-> 0, width |-> 1600, height |-> 2400]]

\* a link near the top of the page that turns red under the pointer
LinkElement ==
    [El(T_A, <<>>, <<C_btn>>) EXCEPT
        !.rect = [top |-> 10, left |-> 10, width |-> 101, height |-> 20],
        !.hover.color = S_red, !.computed.cursor = S_pointer,
        !.textContent = <<" ","g","o"," ">>]

\* a button that is not rendered
HiddenButton ==
    [El(T_BUTTON, <<"x">>, <<>>) EXCEPT
        !.rect = [top |-> 0, left |-> 0, width |-> 0, height |-> 0]]

\* a form control far below every viewport
FarInput ==
    [El(T_INPUT, <<>>, <<>>) EXCEPT
        !.rect = [top |-> 5000, left |-> 10, width |-> 100, height |-> 20]]

\* a card with a layered shadow, laid over the link
CardElement ==
    [El(T_DIV, <<>>, <<C_card>>) EXCEPT
        !.rect = [top |-> 0, left |-> 0, width |-> 400, height |-> 300],
        !.computed.boxShadow = S_shadow_ring, !.hover.boxShadow = S_shadow_soft,
        !.computed.backgroundImage = S_gradient, !.hover.backgroundImage = S_gradient,
        !.computed.marginTop = S_8px]

\* a paragraph
TextElement ==
    [El(T_P, <<>>, <<>>) EXCEPT
        !.computed.color = S_red, !.computed.fontSize = S_12px,
        !.computed.opacity = S_half]

\* a centred container with a shadow whose only colour is visible
ContainerElement ==
    [El(T_A, <<>>, <<>>) EXCEPT
        !.rect = [top |-> 0, left |-> 0, width |-> 960, height |-> 300],
        !.computed.boxShadow = S_shadow_soft, !.computed.borderColor = S_transparent,
        !.computed.backgroundColor = S_red, !.computed.maxWidth = S_960px,
        !.computed.marginLeft = S_auto, !.computed.marginRight = S_auto,
        !.computed.borderRadius = S_8px, !.computed.gap = S_8px,
        !.computed.fontSize = S_100px, !.computed.lineHeight = S_24px,
        !.computed.fontWeight = S_700, !.computed.padding = S_8px,
        !.computed.paddingLeft = S_8px]

\* n copies of an element
Repeat(el, n) == [i \in 1..n |-> el]

S_spin == <<"s","p","i","n"," ","1","s">>   \* 'spin 1s'
S_fixed == <<"f","i","x","e","d">>   \* 'fixed'
\* <input type="submit" class="card" role="navigation">, fixed, animated, and laid
\* out as a centred container: an element of every sampled kind
Tile ==
    [El(T_INPUT, <<>>, <<C_card>>) EXCEPT
        !.type = <<"s","u","b","m","i","t">>,
        !.role = <<"n","a","v","i","g","a","t","i","o","n">>,
        !.rect = [top |-> 0, left |-> 0, width |-> 960, height |-> 300],
        !.computed.animation = S_spin, !.computed.position = S_fixed,
        !.computed.maxWidth = S_960px, !.computed.marginLeft = S_auto,
        !.computed.marginRight = S_auto, !.hover.backgroundColor = S_red]

\* a page that holds more elements of every sampled kind than the kind's cap
CrowdedPage == Doc(<<HtmlElement>> \o Repeat(Tile, MaxHover + 1))

\* a card-like element rendered too small to count as a card
SmallCard ==
    [El(T_DIV, <<>>, <<C_card>>) EXCEPT
        !.rect = [top |-> 0, left |-> 0, width |-> 100, height |-> 20]]

\* a page whose first card-like elements are undersized and whose last one is a card
LateCardPage == Doc(<<HtmlElement>> \o Repeat(SmallCard, MaxCards) \o <<CardElement>>)

\* stylesheet texts and links: two that load, one whose request raises (a blocked
\* cross-origin sheet) and one answered with an error status
Css_p == <<"p","{","}">>
Css_a == <<"a","{","}">>
Css_b == <<"b","{","}">>
Css_c == <<"c","{","}">>
Css_d == <<"d","{","}">>
LinkA == [href |-> <<"u","1">>, fetch |-> "ok", text |-> Css_a]
LinkB == [href |-> <<"u","2">>, fetch |-> "raise", text |-> Css_b]
LinkC == [href |-> <<"u","3">>, fetch |-> "ok", text |-> Css_c]
LinkD == [href |-> <<"u","4">>, fetch |-> "not_ok", text |-> Css_d]

\* the documents the runs extract: one without interactive elements, one whose only
\* interactive elements are invisible, one with a link, a hidden button and a control
\* below the fold, one whose link lies under a card, one whose only linked
\* stylesheet is blocked, one with four linked stylesheets of every outcome, and the
\* crowded page and the page with a late card
PipelinePages ==
    { Doc(<<HtmlElement, TextElement>>),
      Doc(<<HtmlElement, HiddenButton>>),
      [Doc(<<HtmlElement, LinkElement, HiddenButton, FarInput, TextElement>>)
          EXCEPT !.scrollHeight = 2400],
      Doc(<<HtmlElement, LinkElement, CardElement>>),
      CrowdedPage,
      LateCardPage,
      [Doc(<<HtmlElement>>) EXCEPT !.inlineStyles = <<Css_p>>, !.cssLinks = <<LinkB>>],
      [Doc(<<HtmlElement>>) EXCEPT !.inlineStyles = <<Css_p, <<>>, Css_d>>,
                                   !.cssLinks = <<LinkA, LinkB, LinkD, LinkC>>] }

\* the state main is in once the extractor is constructed (pc = "Launch"), or the
\* state in which one function is applied to a document (pc = "unit")
InitWith(doc, vp, start) ==
    /\ page = doc
    /\ self = [ url |-> "url", viewport_width |-> vp.width,
                viewport_height |-> vp.height, html_content |-> "",
                css_content |-> <<>>, computed_styles |-> EmptyMap ]
    /\ pc = start
    /\ trace = <<>>
    /\ raised = <<>>
    /\ browser = "none"
    /\ viewport = [width |-> 0, height |-> 0]
    /\ mouse_moves = <<>>
    /\ files = <<>>
    /\ warnings = <<>>
    /\ interactive_elements = <<>>
    /\ hover_states = <<>>
    /\ hover_i = 0
    /\ responsive_data = EmptyMap
    /\ bp_i = 0
    /\ locals = NoLocals
    /\ data = <<>>
    /\ saved_data = <<>>
    /\ guide_content = <<>>
    /\ exit_status = -1

Init == \E doc \in PipelinePages, vp \in Viewports : InitWith(doc, vp, "Launch")

Spec == Init /\ [][Next]_vars

\* the sequences of at most n members of a set
SeqsUpTo(set, n) == UNION { [1..m -> set] : m \in 0..n }

\* elements that differ in id and classes: without a class, with one, with four, and,
\* in red, with one ending in '_2'
SelectorElements ==
    { El(T_DIV, id, classList) :
        id \in {<<>>, <<"x">>}, classList \in {<<>>, <<C_a>>, <<C_a, C_b, C_card, C_btn>>} }
      \cup { [El(T_DIV, id, <<C_a_2>>) EXCEPT !.computed.color = S_red] :
                id \in {<<>>, <<"x">>} }

\* a heading-sized span that shares the card's gradient
BannerElement ==
    [El(T_SPAN, <<>>, <<>>) EXCEPT
        !.computed.backgroundImage = S_gradient, !.computed.fontSize = S_9px,
        !.computed.fontWeight = S_1000, !.computed.marginLeft = S_minus4px,
        !.computed.paddingTop = S_8px, !.computed.opacity = S_quarter,
        !.computed.transition = S_fade, !.computed.textTransform = S_uppercase]

StyledElements ==
    { El(T_DIV, <<>>, <<>>), TextElement, CardElement, LinkElement, BannerElement,
      ContainerElement }

\* the size the unit specifications leave the extractor configured with
UnitViewport == [width |-> 1600, height |-> 1200]

\* _extract_computed_styles applied to a document
InitStyles ==
    \E elements \in SeqsUpTo(SelectorElements, MaxElems) :
        InitWith(Doc(elements), UnitViewport, "unit")

UnitStyleSampler ==
    /\ pc = "unit"
    /\ self' = [self EXCEPT !.computed_styles = ExtractComputedStyles(page)]
    /\ pc' = "unit_done"
    /\ UNCHANGED <<page, trace, raised, browser, viewport, files, warnings, probeVars,
                   respVars, locals, data, saved_data, guide_content, exit_status>>

SpecStyles == InitStyles /\ [][UnitStyleSampler]_vars

\* the five collectors applied to a document
InitCollectors ==
    \E elements \in SeqsUpTo(StyledElements, MaxElems) :
        InitWith(Doc(elements), UnitViewport, "unit")

UnitCollectors ==
    /\ pc = "unit"
    /\ locals' = [locals EXCEPT !.colors = <<ExtractColors(page)>>,
                                !.typography = <<ExtractTypography(page)>>,
                                !.layout = <<ExtractLayout(page)>>,
                                !.animations = <<ExtractAnimations(page)>>,
                                !.effects = <<ExtractEffects(page)>>]
    /\ pc' = "unit_done"
    /\ UNCHANGED <<page, self, trace, raised, browser, viewport, files, warnings,
                   probeVars, respVars, data, saved_data, guide_content, exit_status>>

SpecCollectors == InitCollectors /\ [][UnitCollectors]_vars

\* rules of a stylesheet: a style rule and three keyframes rules
StyleRule == [keyframes |-> FALSE, name |-> "", rules |-> <<>>]
SpinRule ==
    [ keyframes |-> TRUE, name |-> "spin",
      rules |-> <<"from { transform: rotate(0deg); }", "to { transform: rotate(360deg); }">> ]
FadeRule ==
    [ keyframes |-> TRUE, name |-> "fade",
      rules |-> <<"0% { opacity: 0; }", "100% { opacity: 1; }">> ]
PulseRule == [keyframes |-> TRUE, name |-> "pulse", rules |-> <<>>]

\* stylesheets: a cross-origin one whose cssRules cannot be read, and three of the
\* page's own
StyleSheets ==
    { [restricted |-> TRUE, cssRules |-> <<>>],
      [restricted |-> FALSE, cssRules |-> <<StyleRule>>],
      [restricted |-> FALSE, cssRules |-> <<StyleRule, SpinRule>>],
      [restricted |-> FALSE, cssRules |-> <<FadeRule, StyleRule, PulseRule>>] }

\* _extract_animations applied to a document with a list of stylesheets
InitAnimations ==
    \E sheets \in SeqsUpTo(StyleSheets, MaxSheets) :
        InitWith([Doc(<<HtmlElement, BannerElement>>) EXCEPT !.styleSheets = sheets],
                 UnitViewport, "unit")

UnitAnimations ==
    /\ pc = "unit"
    /\ locals' = [locals EXCEPT !.animations = <<ExtractAnimations(page)>>]
    /\ pc' = "unit_done"
    /\ UNCHANGED <<page, self, trace, raised, browser, viewport, files, warnings,
                   probeVars, respVars, data, saved_data, guide_content, exit_status>>

SpecAnimations == InitAnimations /\ [][UnitAnimations]_vars

----------------------------------------------------------------------------
(* The claims.                                                             *)

\* whether a is an initial segment of b
IsPrefix(a, b) == Len(a) <= Len(b) /\ a = SubSeq(b, 1, Len(a))

\* whether a sequence lists no value twice
NoDuplicates(seq) == \A i, j \in 1..Len(seq) : i # j => seq[i] # seq[j]

\* the steps the specification calls stages
StageNames ==
    { "Navigate", "StyleSampler", "ColorPalette", "Typography", "Layout", "Animation",
      "Effects", "InteractiveStateProbe", "ComponentClassifier", "UXPatternAnalyzer",
      "ResponsiveSampler", "Aggregate" }
IsStage(step) == step \in StageNames

\* the stages entered so far, in order
StageTrace == SelectSeq(trace, IsStage)

\* the configured viewport
Configured == [width |-> self.viewport_width, height |-> self.viewport_height]

\* control is inside _test_responsive
InResponsive == pc \in {"resp_set", "resp_shot", "resp_measure", "resp_reset"}

\* C1 as stated: the stages run in the order Navigate, StyleSampler, ColorPalette,
\* Typography, Layout, Animation, Effects, InteractiveStateProbe,
\* ComponentClassifier, UXPatternAnalyzer, ResponsiveSampler, Aggregate, each at most
\* once: the stages entered so far are always an initial segment of that list.
C1_StatedOrder ==
    IsPrefix(StageTrace,
             << "Navigate", "StyleSampler", "ColorPalette", "Typography", "Layout",
                "Animation", "Effects", "InteractiveStateProbe", "ComponentClassifier",
                "UXPatternAnalyzer", "ResponsiveSampler", "Aggregate" >>)

\* C1 as amended: the stages run in the order Navigate, StyleSampler,
\* InteractiveStateProbe, ColorPalette, Typography, Layout, Animation, Effects,
\* ComponentClassifier, UXPatternAnalyzer, ResponsiveSampler, Aggregate, each at most
\* once and none re-entered; the probe runs after StyleSampler and before the five
\* collectors.
C1_CodeOrder ==
    IsPrefix(StageTrace,
             << "Navigate", "StyleSampler", "InteractiveStateProbe", "ColorPalette",
                "Typography", "Layout", "Animation", "Effects", "ComponentClassifier",
                "UXPatternAnalyzer", "ResponsiveSampler", "Aggregate" >>)

\* a run that has entered all twelve stages and ended
C1_Witness == pc = "done" /\ Len(StageTrace) = 12

\* C2 as stated: when a stage other than Navigate raises, the run still reaches
\* Aggregate and ends with exit status 0.
C2_StageFailureIsCaught ==
    (exit_status # -1 /\ raised # <<>> /\ raised[1] \in StageNames \ {"Navigate"})
        => (exit_status = 0 /\ "Aggregate" \in Range(trace))

\* C3: once _test_responsive has returned, the session's viewport is the configured
\* one.
C3_ViewportRestored == locals.responsive # <<>> => viewport = Configured

\* _test_responsive has returned after visiting every breakpoint, in a run configured
\* with a viewport that is not the default
C3_Witness ==
    /\ locals.responsive # <<>>
    /\ DOMAIN locals.responsive[1] = {"mobile", "tablet", "desktop"}
    /\ Configured = [width |-> 800, height |-> 600]

\* C4 as stated: whenever control has left _test_responsive, by return or by an
\* exception, the viewport is the configured one.
C4_RestoredOnEveryExit ==
    ("ResponsiveSampler" \in Range(trace) /\ ~InResponsive) => viewport = Configured

\* C5 as stated: one StyleSampler pass stores as many entries as the document has
\* elements.
C5_SelectorsDistinct ==
    pc = "unit_done" => Cardinality(DOMAIN self.computed_styles) = Len(page.elements)

\* C6: when navigation fails, the run ends with status 1, no later step has been
\* entered and no file has been written.
C6_NavigationFailureAborts ==
    (raised # <<>> /\ raised[1] = "Navigate")
        => /\ exit_status = 1
           /\ pc = "failed"
           /\ trace = <<"Launch", "Navigate">>
           /\ files = <<>>

\* a run whose navigation has failed
C6_Witness == raised = <<"Navigate">> /\ browser = "closed"

\* C7: the snapshot holds, under each collector's key, the value that collector
\* returned.
C7_SnapshotHoldsResults ==
    data # <<>>
        => /\ data[1].colors = locals.colors[1]
           /\ data[1].typography = locals.typography[1]
           /\ data[1].layout = locals.layout[1]
           /\ data[1].animations = locals.animations[1]
           /\ data[1].effects = locals.effects[1]
           /\ data[1].interactive_states = locals.interactive_states[1]
           /\ data[1].components = locals.components[1]
           /\ data[1].ux_patterns = locals.ux_patterns[1]
           /\ data[1].responsive = locals.responsive[1]

\* a finished run whose snapshot holds a hover sample and a button sample
C7_Witness ==
    /\ pc = "done"
    /\ data # <<>>
    /\ data[1].interactive_states.hover_samples # <<>>
    /\ data[1].components.buttons # <<>>

\* C8: no output sequence of the five collectors lists a value twice.
C8_NoDuplicates ==
    pc = "unit_done"
        => /\ \A k \in {"textColors", "backgroundColors", "borderColors", "shadowColors",
                        "gradients"} : NoDuplicates(locals.colors[1][k])
           /\ \A k \in {"fonts", "sizes", "weights", "lineHeights", "letterSpacings",
                        "textTransforms"} : NoDuplicates(locals.typography[1][k])
           /\ \A k \in {"margins", "paddings", "gaps", "borderRadii", "maxWidths"} :
                  NoDuplicates(locals.layout[1][k])
           /\ NoDuplicates(locals.animations[1].transitions)
           /\ \A k \in {"boxShadows", "textShadows", "filters", "transforms",
                        "opacities"} : NoDuplicates(locals.effects[1][k])

\* the collectors have run on a document in which three elements share a gradient, a
\* shadow and a font size
C8_Witness ==
    /\ pc = "unit_done"
    /\ Len(page.elements) = 3
    /\ \A i \in 1..3 : page.elements[i] = page.elements[1]
    /\ Len(locals.colors[1].gradients) = 1
    /\ Len(locals.effects[1].boxShadows) = 1
    /\ Len(locals.layout[1].margins) = 1

\* C9 as stated: none of the four color sets holds 'rgba(0, 0, 0, 0)'.
C9_NoTransparentColor ==
    pc = "unit_done"
        => \A k \in {"textColors", "backgroundColors", "borderColors", "shadowColors"} :
               S_transparent \notin Range(locals.colors[1][k])

\* a document without a visible interactive element
NoVisibleInteractive == \A k \in 1..Len(page.elements) :
    ~(IsInteractive(page.elements[k]) /\ page.elements[k].rect.width > 0
        /\ page.elements[k].rect.height > 0)

\* C10: on a document without a visible interactive element the probe moves the
\* pointer never, takes no hover screenshot and returns no hover sample, and the run,
\* unless a call raises, goes through every stage and ends with status 0.
C10_NothingToProbe ==
    NoVisibleInteractive
        => /\ mouse_moves = <<>>
           /\ "interactive_hover.png" \notin Range(files)
           /\ (locals.interactive_states # <<>>
                 => locals.interactive_states[1].hover_samples = <<>>)
           /\ (exit_status # -1 /\ raised = <<>>
                 => exit_status = 0 /\ pc = "done" /\ Len(StageTrace) = 12)

\* a finished run on a document whose only interactive element is not rendered
C10_Witness ==
    /\ NoVisibleInteractive
    /\ \E k \in 1..Len(page.elements) : IsInteractive(page.elements[k])
    /\ pc = "done"
    /\ exit_status = 0
    /\ locals.interactive_states[1].hover_samples = <<>>

\* the position at which sub first occurs in s (0: nowhere)
IndexOf(s, sub) ==
    IF Includes(s, sub)
    THEN CHOOSE i \in 1..(Len(s) + 1) :
             OccursAt(s, i, sub) /\ \A j \in 1..(i - 1) : ~OccursAt(s, j, sub)
    ELSE 0

\* _extract_css has returned
CssExtracted == "StyleSampler" \in Range(trace)

FetchRaised(link) == link.fetch = "raise"
FetchSucceeded(link) == link.fetch = "ok"

\* the stylesheet texts the result is to hold, in order: the non-empty inline
\* contents, then the linked stylesheets that were fetched
CssPieces ==
    SelectSeq(page.inlineStyles, Truthy)
      \o [k \in 1..Len(SelectSeq(page.cssLinks, FetchSucceeded)) |->
             SelectSeq(page.cssLinks, FetchSucceeded)[k].text]

\* C11: once _extract_css has returned, one warning is recorded for each linked
\* stylesheet whose fetch raised and its text is not in the result; the result holds
\* every inline style's content and then every fetched stylesheet's text, in document
\* order; and the run, unless another call raises, ends with status 0.
C11_FetchFailureTolerated ==
    CssExtracted
        => /\ warnings = [k \in 1..Len(SelectSeq(page.cssLinks, FetchRaised)) |->
                             SelectSeq(page.cssLinks, FetchRaised)[k].href]
           /\ \A k \in 1..Len(page.cssLinks) :
                  FetchRaised(page.cssLinks[k])
                      => ~Includes(self.css_content, page.cssLinks[k].text)
           /\ \A n \in 1..Len(CssPieces) : Includes(self.css_content, CssPieces[n])
           /\ \A n \in 1..(Len(CssPieces) - 1) :
                  IndexOf(self.css_content, CssPieces[n])
                      < IndexOf(self.css_content, CssPieces[n + 1])
           /\ (exit_status # -1 /\ raised = <<>> => exit_status = 0 /\ pc = "done")

\* a finished run on a document whose second linked stylesheet could not be fetched
\* and whose last one was
C11_Witness ==
    /\ pc = "done"
    /\ exit_status = 0
    /\ Len(page.cssLinks) = 4
    /\ FetchRaised(page.cssLinks[2])
    /\ warnings = <<page.cssLinks[2].href>>
    /\ Includes(self.css_content, page.cssLinks[4].text)

\* C12: every capped list of the snapshot is within its cap: hover samples 10,
\* buttons 5, cards 3, navigation bars 2, form controls 5, containers 5, animated
\* elements 10, sticky or fixed elements 5.
C12_ListsWithinCaps ==
    data # <<>>
        => /\ Len(data[1].interactive_states.hover_samples) <= MaxHover
           /\ Len(data[1].components.buttons) <= MaxButtons
           /\ Len(data[1].components.cards) <= MaxCards
           /\ Len(data[1].components.navbars) <= MaxNavbars
           /\ Len(data[1].components.forms) <= MaxForms
           /\ Len(data[1].layout.containers) <= MaxContainers
           /\ Len(data[1].animations.animatedElements) <= MaxAnimated
           /\ Len(data[1].ux_patterns.stickyElements) <= MaxSticky

\* a snapshot of a page that holds more elements of every kind than the cap, every
\* list filled to its cap
C12_Witness ==
    /\ data # <<>>
    /\ Len(SelectSeq(page.elements, IsButton)) > MaxButtons
    /\ Len(SelectSeq(page.elements, IsCard)) > MaxCards
    /\ Len(SelectSeq(page.elements, IsNavbar)) > MaxNavbars
    /\ Len(SelectSeq(page.elements, IsFormControl)) > MaxForms
    /\ Len(SelectSeq(page.elements, IsSticky)) > MaxSticky
    /\ Len(data[1].interactive_states.all_interactive) > MaxHover
    /\ Len(data[1].interactive_states.hover_samples) = MaxHover
    /\ Len(data[1].components.buttons) = MaxButtons
    /\ Len(data[1].components.cards) = MaxCards
    /\ Len(data[1].components.navbars) = MaxNavbars
    /\ Len(data[1].components.forms) = MaxForms
    /\ Len(data[1].layout.containers) = MaxContainers
    /\ Len(data[1].animations.animatedElements) = MaxAnimated
    /\ Len(data[1].ux_patterns.stickyElements) = MaxSticky

\* C13 as stated: each kind's samples are the samples of the first elements, up to the
\* kind's cap, among those that match the kind's selector and, for cards, pass the
\* size filter.
C13_FirstQualifying ==
    data # <<>>
        => /\ data[1].components.buttons =
                 [i \in 1..Len(Slice(SelectSeq(page.elements, IsButton), MaxButtons)) |->
                    ButtonSample(SelectSeq(page.elements, IsButton)[i])]
           /\ data[1].components.cards =
                 [i \in 1..Len(Slice(SelectSeq(SelectSeq(page.elements, IsCard),
                                               CardSized), MaxCards)) |->
                    CardSample(SelectSeq(SelectSeq(page.elements, IsCard), CardSized)[i])]
           /\ data[1].components.navbars =
                 [i \in 1..Len(Slice(SelectSeq(page.elements, IsNavbar), MaxNavbars)) |->
                    NavbarSample(SelectSeq(page.elements, IsNavbar)[i])]
           /\ data[1].components.forms =
                 [i \in 1..Len(Slice(SelectSeq(page.elements, IsFormControl), MaxForms)) |->
                    FormSample(SelectSeq(page.elements, IsFormControl)[i])]

\* the number of times a step has been entered
Entered(step) == Cardinality({i \in 1..Len(trace) : trace[i] = step})

\* C14: the snapshot is assembled at most once in a run; once it is assembled no step
\* changes it, the write of design_data.json and generate_design_guide included; and
\* once the guide is generated the snapshot design_data.json encodes is the snapshot
\* the renderer was handed.
C14_SnapshotNeverMutated ==
    /\ [](Entered("Aggregate") <= 1)
    /\ [](guide_content # <<>> => saved_data # <<>> /\ saved_data = data)
    /\ [][data # <<>> => data' = data]_vars

\* a finished run whose snapshot, with two text colors, was written and rendered
C14_Witness ==
    /\ pc = "done"
    /\ Entered("Aggregate") = 1
    /\ "design_data.json" \in Range(files)
    /\ guide_content # <<>>
    /\ Len(data[1].colors.textColors) >= 2

\* the screenshot files a run can capture
ScreenshotFiles ==
    { "viewport_screenshot.png", "fullpage_screenshot.png", "interactive_hover.png",
      "responsive_mobile.png", "responsive_tablet.png", "responsive_desktop.png" }

\* the screenshots a snapshot refers to: its screenshots record and the screenshot of
\* each breakpoint's entry
ScreenshotRefs(d) ==
    {d.screenshots[k] : k \in DOMAIN d.screenshots}
        \cup {d.responsive[k].screenshot : k \in DOMAIN d.responsive}

CollectorKeys ==
    { "colors", "typography", "layout", "animations", "effects", "interactive_states",
      "components", "ux_patterns", "responsive" }

\* the snapshot holds the url, the configured viewport and every collector's record
HoldsRecords(d) ==
    /\ d.url = self.url
    /\ d.viewport = Configured
    /\ CollectorKeys \subseteq DOMAIN d

\* the snapshot holds the raw HTML and CSS text
HoldsRawText(d) ==
    /\ "html" \in DOMAIN d
    /\ "css" \in DOMAIN d
    /\ d.html = self.html_content
    /\ d.css = self.css_content

\* the snapshot refers to every screenshot captured
HoldsScreenshots(d) == Range(files) \cap ScreenshotFiles \subseteq ScreenshotRefs(d)

\* C15 as stated: the assembled snapshot holds the url, the configured viewport, the
\* raw HTML text, the raw CSS text, each collector's record, and a reference to every
\* screenshot captured in the run.
C15_SnapshotComplete ==
    data # <<>> => HoldsRecords(data[1]) /\ HoldsRawText(data[1]) /\ HoldsScreenshots(data[1])

\* C16: from the creation of the session until ResponsiveSampler starts the viewport
\* is the configured one in every state, and no step outside _test_responsive changes
\* the viewport of the session once it is created.
C16_ViewportUntouched ==
    /\ []("Launch" \in Range(trace) /\ "ResponsiveSampler" \notin Range(trace)
             => viewport = Configured)
    /\ [][viewport' # viewport => pc \in {"Launch", "resp_set", "resp_reset"}]_vars

\* the hover probe has moved the pointer and the collectors have run, in a run
\* configured with a viewport that is not the default, and ResponsiveSampler is about
\* to start
C16_Witness ==
    /\ pc = "ResponsiveSampler"
    /\ mouse_moves # <<>>
    /\ locals.ux_patterns # <<>>
    /\ Configured = [width |-> 800, height |-> 600]
    /\ viewport = Configured

\* the breakpoints in the order the specification lists them
StatedBreakpoints ==
    << [name |-> "mobile", width |-> 375, height |-> 812],
       [name |-> "tablet", width |-> 768, height |-> 1024],
       [name |-> "desktop", width |-> 1920, height |-> 1080] >>

IsResponsiveScreenshot(file) ==
    file \in {"responsive_mobile.png", "responsive_tablet.png", "responsive_desktop.png"}

\* the entries recorded so far are those of the first n stated breakpoints, each
\* holding its breakpoint and a measurement taken at the breakpoint's size
EntriesOfFirst(entries, n) ==
    /\ DOMAIN entries = {StatedBreakpoints[k].name : k \in 1..n}
    /\ \A k \in 1..n :
          /\ entries[StatedBreakpoints[k].name].viewport = StatedBreakpoints[k]
          /\ entries[StatedBreakpoints[k].name].layout.viewportWidth
                = StatedBreakpoints[k].width
          /\ entries[StatedBreakpoints[k].name].layout.viewportHeight
                = StatedBreakpoints[k].height

\* C17: the breakpoints are visited in the order mobile (375x812), tablet (768x1024),
\* desktop (1920x1080); each breakpoint's steps are taken in the order set viewport,
\* screenshot, measure and record; while a breakpoint's screenshot and measurement
\* are taken the viewport has the breakpoint's size; and the value returned has one
\* entry for each breakpoint, under its name.
C17_BreakpointsInOrder ==
    /\ [](InResponsive /\ pc # "resp_reset" => bp_i < 3)
    /\ [](pc \in {"resp_shot", "resp_measure"}
             => viewport = [width |-> StatedBreakpoints[bp_i + 1].width,
                            height |-> StatedBreakpoints[bp_i + 1].height])
    /\ [](IsPrefix(SelectSeq(files, IsResponsiveScreenshot),
                   <<"responsive_mobile.png", "responsive_tablet.png",
                     "responsive_desktop.png">>))
    /\ [](InResponsive => EntriesOfFirst(responsive_data, bp_i))
    /\ [](locals.responsive # <<>> => EntriesOfFirst(locals.responsive[1], 3))
    /\ [][/\ (pc = "resp_set" /\ pc' # pc => pc' \in {"resp_shot", "failed"})
          /\ (pc = "resp_shot" /\ pc' # pc => pc' \in {"resp_measure", "failed"})
          /\ (pc = "resp_measure" /\ pc' # pc
                 => pc' \in {"resp_set", "resp_reset", "failed"})
          /\ (pc' = "resp_shot" /\ pc # pc' => pc = "resp_set")
          /\ (pc' = "resp_measure" /\ pc # pc' => pc = "resp_shot")]_vars

\* _test_responsive has returned an entry for each of the three breakpoints and all
\* three screenshots are written
C17_Witness ==
    /\ locals.responsive # <<>>
    /\ DOMAIN locals.responsive[1] = {"mobile", "tablet", "desktop"}
    /\ SelectSeq(files, IsResponsiveScreenshot)
         = <<"responsive_mobile.png", "responsive_tablet.png", "responsive_desktop.png">>
    /\ locals.responsive[1]["mobile"].layout.viewportWidth = 375

\* whether a can be obtained from b by leaving elements out
RECURSIVE IsSubsequence(_, _)
IsSubsequence(a, b) ==
    IF a = <<>> THEN TRUE
    ELSE IF b = <<>> THEN FALSE
    ELSE IF a[1] = b[1] THEN IsSubsequence(Tail(a), Tail(b))
    ELSE IsSubsequence(a, Tail(b))

\* the visible interactive elements of the page, in document order
VisibleAndInteractive(el) == IsInteractive(el) /\ el.rect.width > 0 /\ el.rect.height > 0
VisibleInteractive == SelectSeq(page.elements, VisibleAndInteractive)

\* the first ten of them
Considered == SubSeq(VisibleInteractive, 1,
                     IF Len(VisibleInteractive) < 10 THEN Len(VisibleInteractive) ELSE 10)

\* the positions in the page of the elements that cover the centre of an element
CoveringCentre(el) ==
    {k \in 1..Len(page.elements) : Contains2(page.elements[k].rect, Centre2(el.rect))}

\* the centre of an element lies in the configured viewport
CentreInViewport(el) ==
    /\ 0 <= Centre2(el.rect).x /\ Centre2(el.rect).x < 2 * Configured.width
    /\ 0 <= Centre2(el.rect).y /\ Centre2(el.rect).y < 2 * Configured.height

\* the position in the page of the topmost element at the centre of an element: the
\* last one in document order that covers it (0: none)
TopmostAtCentre(el) ==
    IF CentreInViewport(el) /\ CoveringCentre(el) # {}
    THEN CHOOSE k \in CoveringCentre(el) : \A j \in CoveringCentre(el) : j <= k
    ELSE 0
HasTopmost(el) == TopmostAtCentre(el) # 0

\* the sample the claim describes for a selected element
PairedSample(el) ==
    [ selector |-> ProbeSelector(el),
      default |-> DefaultState(el.computed),
      hover |-> HoverState(page.elements[TopmostAtCentre(el)].hover) ]

\* the samples of the selected elements at whose centre an element exists
PairedSamples(selected) ==
    [k \in 1..Len(SelectSeq(selected, HasTopmost)) |->
       PairedSample(SelectSeq(selected, HasTopmost)[k])]

\* C18: the pointer is moved to the centres of the first ten visible interactive
\* elements, in document order, and to no other point; the hover samples are, in the
\* same order, samples of those elements at whose centre an element exists, each
\* pairing the selected element's selector and default style with the style of the
\* topmost element at that centre.
C18_HoverSamplesPaired ==
    ("InteractiveStateProbe" \in Range(trace) /\ interactive_elements # <<>>)
        => /\ hover_i <= Len(Considered)
           /\ mouse_moves = [k \in 1..hover_i |-> Centre2(Considered[k].rect)]
           /\ IsSubsequence(hover_states, PairedSamples(SubSeq(Considered, 1, hover_i)))
           /\ (locals.interactive_states # <<>>
                 => locals.interactive_states[1].hover_samples = hover_states)

\* the probe has returned a sample for a link that lies under a card: the link's
\* selector and default style with the card's style under the pointer
C18_Witness ==
    /\ locals.interactive_states # <<>>
    /\ Len(locals.interactive_states[1].hover_samples) = 1
    /\ locals.interactive_states[1].hover_samples[1].selector = <<"a",".","b","t","n">>
    /\ locals.interactive_states[1].hover_samples[1].default.boxShadow = S_none
    /\ locals.interactive_states[1].hover_samples[1].hover.boxShadow = S_shadow_soft

\* the number of times a file has been written
Written(file) == Cardinality({i \in 1..Len(files) : files[i] = file})

\* C19: interactive_hover.png is written at most once, only after the hover loop has
\* ended and only when a hover sample was recorded; once the probe has returned it is
\* written exactly when hover_samples is not empty.
C19_HoverScreenshotOnce ==
    /\ Written("interactive_hover.png") <= 1
    /\ (Written("interactive_hover.png") = 1
          => /\ pc # "hover_loop"
             /\ hover_i = Len(Slice(interactive_elements, 10))
             /\ hover_states # <<>>)
    /\ (locals.interactive_states # <<>>
          => (Written("interactive_hover.png") = 1
                <=> locals.interactive_states[1].hover_samples # <<>>))

\* the probe has returned with a sample from a loop over several elements, one of
\* which gave none, and the hover screenshot was written once
C19_Witness ==
    /\ locals.interactive_states # <<>>
    /\ Len(mouse_moves) > Len(locals.interactive_states[1].hover_samples)
    /\ locals.interactive_states[1].hover_samples # <<>>
    /\ Written("interactive_hover.png") = 1

\* a sequence without the later occurrences of its values
RECURSIVE FirstSeen(_)
FirstSeen(seq) ==
    IF seq = <<>> THEN <<>>
    ELSE IF seq[Len(seq)] \in Range(SubSeq(seq, 1, Len(seq) - 1))
    THEN FirstSeen(SubSeq(seq, 1, Len(seq) - 1))
    ELSE Append(FirstSeen(SubSeq(seq, 1, Len(seq) - 1)), seq[Len(seq)])

\* a sequence without the values of a set
Without(seq, excluded) == SelectSeq(seq, LAMBDA v : v \notin excluded)

\* the values of a computed property met in a pass over elements
Met(elements, property) == [i \in 1..Len(elements) |-> elements[i].computed[property]]

\* the elements the typography pass visits
IsTextElement(el) == ToLowerCase(el.tagName) \in TextTags
TextElements == SelectSeq(page.elements, IsTextElement)

\* the gradient declarations and the shadow colors met in a pass over elements
HasGradient(image) == Includes(image, <<"g","r","a","d","i","e","n","t">>)
RECURSIVE ShadowColorsMet(_)
ShadowColorsMet(elements) ==
    IF elements = <<>> THEN <<>>
    ELSE (IF elements[1].computed.boxShadow \in {<<>>, S_none} THEN <<>>
          ELSE MatchColorsFrom(elements[1].computed.boxShadow, 1))
           \o ShadowColorsMet(Tail(elements))

\* out lists the values met, each once, in the order of their first encounter
FirstEncounterOrder(out, met) == out = FirstSeen(met)

\* out lists the values met, each once
ListsEachOnce(out, met) == Range(out) = Range(met) /\ Len(out) = Len(FirstSeen(met))

\* ascending by parseFloat, and ascending by string order
AscendingNumbers(out) ==
    \A i, j \in 1..Len(out) : i < j => ParseFloat(out[i]).val <= ParseFloat(out[j]).val
AllNumbers(out) == \A i \in 1..Len(out) : ~ParseFloat(out[i]).nan
AscendingStrings(out) == \A i, j \in 1..Len(out) : i < j => ~StringLess(out[j], out[i])

\* the sequences of the color and animation collectors and the unsorted ones of the
\* typography and effects collectors are in order of first encounter
UnsortedInEncounterOrder ==
    /\ FirstEncounterOrder(locals.colors[1].textColors,
                           Without(Met(page.elements, "color"), {<<>>, S_transparent}))
    /\ FirstEncounterOrder(locals.colors[1].backgroundColors,
                           Without(Met(page.elements, "backgroundColor"),
                                   {<<>>, S_transparent}))
    /\ FirstEncounterOrder(locals.colors[1].borderColors,
                           Without(Met(page.elements, "borderColor"),
                                   {<<>>, S_transparent}))
    /\ FirstEncounterOrder(locals.colors[1].shadowColors, ShadowColorsMet(page.elements))
    /\ FirstEncounterOrder(locals.colors[1].gradients,
                           SelectSeq(Met(page.elements, "backgroundImage"), HasGradient))
    /\ FirstEncounterOrder(locals.typography[1].fonts, Met(TextElements, "fontFamily"))
    /\ FirstEncounterOrder(locals.typography[1].letterSpacings,
                           Met(TextElements, "letterSpacing"))
    /\ FirstEncounterOrder(locals.typography[1].textTransforms,
                           Without(Met(TextElements, "textTransform"), {S_none}))
    /\ FirstEncounterOrder(locals.animations[1].transitions,
                           Without(Met(page.elements, "transition"),
                                   {S_no_transition, S_none}))
    /\ FirstEncounterOrder(locals.effects[1].boxShadows,
                           Without(Met(page.elements, "boxShadow"), {S_none}))
    /\ FirstEncounterOrder(locals.effects[1].textShadows,
                           Without(Met(page.elements, "textShadow"), {S_none}))
    /\ FirstEncounterOrder(locals.effects[1].filters,
                           Without(Met(page.elements, "filter"), {S_none}))
    /\ FirstEncounterOrder(locals.effects[1].transforms,
                           Without(Met(page.elements, "transform"), {S_none}))

\* C20 as stated: the typography sizes, weights and line-heights and the effects
\* opacities, like every other sequence of the color, typography, animation and
\* effects collectors, are in order of first encounter.
C20_EncounterOrderEverywhere ==
    pc = "unit_done"
        => /\ UnsortedInEncounterOrder
           /\ FirstEncounterOrder(locals.typography[1].sizes, Met(TextElements, "fontSize"))
           /\ FirstEncounterOrder(locals.typography[1].weights,
                                  Met(TextElements, "fontWeight"))
           /\ FirstEncounterOrder(locals.typography[1].lineHeights,
                                  Met(TextElements, "lineHeight"))
           /\ FirstEncounterOrder(locals.effects[1].opacities,
                                  Without(Met(page.elements, "opacity"), {S_1}))

\* C20 as amended: the sequences of the color and animation collectors, the
\* typography fonts, letter-spacings and text-transforms and the effects box-shadows,
\* text-shadows, filters and transforms are in order of first encounter; the
\* typography sizes list the sizes met ascending by parseFloat; the typography
\* weights and line-heights and the effects opacities list the values met ascending
\* by string order; the layout margins, paddings, gaps and border-radii list the
\* values met, ascending by parseFloat when every value is a number.
C20_SortedWhereTheCodeSorts ==
    pc = "unit_done"
        => /\ UnsortedInEncounterOrder
           /\ ListsEachOnce(locals.typography[1].sizes, Met(TextElements, "fontSize"))
           /\ AscendingNumbers(locals.typography[1].sizes)
           /\ ListsEachOnce(locals.typography[1].weights, Met(TextElements, "fontWeight"))
           /\ AscendingStrings(locals.typography[1].weights)
           /\ ListsEachOnce(locals.typography[1].lineHeights,
                            Met(TextElements, "lineHeight"))
           /\ AscendingStrings(locals.typography[1].lineHeights)
           /\ ListsEachOnce(locals.effects[1].opacities,
                            Without(Met(page.elements, "opacity"), {S_1}))
           /\ AscendingStrings(locals.effects[1].opacities)
           /\ \A k \in {"margins", "paddings", "gaps", "borderRadii"} :
                  AllNumbers(locals.layout[1][k]) => AscendingNumbers(locals.layout[1][k])

\* the collectors have run on a document whose text elements have sizes 100px, 12px
\* and 9px and weights 700, 400 and 1000, in this order
C20_Witness ==
    /\ pc = "unit_done"
    /\ Met(TextElements, "fontSize") = <<S_100px, S_12px, S_9px>>
    /\ Met(TextElements, "fontWeight") = <<S_700, S_400, S_1000>>
    /\ locals.typography[1].sizes = <<S_9px, S_12px, S_100px>>
    /\ locals.typography[1].weights = <<S_1000, S_400, S_700>>
    /\ locals.effects[1].opacities = <<<<"0",".","2","5">>, <<"0",".","5">>>>

\* the values of a sequence that parse as numbers are ascending by their value
NumbersAscending(out) ==
    \A i, j \in 1..Len(out) :
        (i < j /\ ~ParseFloat(out[i]).nan /\ ~ParseFloat(out[j]).nan)
            => ParseFloat(out[i]).val <= ParseFloat(out[j]).val

\* C21 as stated: the layout collector's margins, paddings, gaps and border-radii
\* hold no '0px' and are in ascending order of numeric magnitude, negative margins
\* included; the order is required here only of the values that are numbers.
C21_SpacingAscending ==
    pc = "unit_done"
        => \A k \in {"margins", "paddings", "gaps", "borderRadii"} :
               /\ S_0px \notin Range(locals.layout[1][k])
               /\ NumbersAscending(locals.layout[1][k])

\* the members of the sequences of a sequence, in order
RECURSIVE Flatten(_)
Flatten(seqs) == IF seqs = <<>> THEN <<>> ELSE seqs[1] \o Flatten(Tail(seqs))

IsAccessible(sheet) == ~sheet.restricted
IsKeyframesRule(rule) == rule.keyframes

\* the top-level keyframes rules of the accessible stylesheets, in stylesheet order
AccessibleKeyframes ==
    SelectSeq(Flatten([k \in 1..Len(SelectSeq(page.styleSheets, IsAccessible)) |->
                          SelectSeq(page.styleSheets, IsAccessible)[k].cssRules]),
              IsKeyframesRule)

\* C22: whatever stylesheets are restricted, _extract_animations returns, and its
\* keyframes list holds one entry, the name and the rule texts as they are, for each
\* top-level keyframes rule of each accessible stylesheet, in stylesheet order, and
\* nothing else.
C22_RestrictedSheetsSkipped ==
    pc = "unit_done"
        => /\ locals.animations # <<>>
           /\ locals.animations[1].keyframes =
                 [k \in 1..Len(AccessibleKeyframes) |->
                    [ name |-> AccessibleKeyframes[k].name,
                      rules |-> AccessibleKeyframes[k].rules ]]

\* the keyframes of a document whose accessible stylesheets stand before, between
\* and after restricted ones
C22_Witness ==
    /\ pc = "unit_done"
    /\ Len(page.styleSheets) = 3
    /\ page.styleSheets[1].restricted
    /\ ~page.styleSheets[2].restricted
    /\ page.styleSheets[3].restricted
    /\ Len(locals.animations[1].keyframes) = 2
    /\ locals.animations[1].keyframes[1].name = "fade"
    /\ locals.animations[1].keyframes[1].rules = <<"0% { opacity: 0; }", "100% { opacity: 1; }">>

\* the text of a traversal index below 10
IndexText(idx) == <<SubSeq(<<"0","1","2","3","4","5","6","7","8","9">>, idx + 1, idx + 1)[1]>>

\* a selector of the tag name, the id and the first n classes
SelectorOf(el, n) ==
    ToLowerCase(el.tagName)
      \o (IF el.id # <<>> THEN <<"#">> \o el.id ELSE <<>>)
      \o Flatten([k \in 1..(IF Len(el.classList) < n THEN Len(el.classList) ELSE n) |->
                     <<".">> \o el.classList[k]])

\* the keys a pass gives the first m elements of the page, in document order, when
\* selectors keep n classes: an element's selector, with '_' and its traversal index
\* appended when an earlier element has that key
RECURSIVE KeysOf(_, _)
KeysOf(m, n) ==
    IF m = 0 THEN <<>>
    ELSE Append(KeysOf(m - 1, n),
                IF SelectorOf(page.elements[m], n) \in Range(KeysOf(m - 1, n))
                THEN SelectorOf(page.elements[m], n) \o <<"_">> \o IndexText(m - 1)
                ELSE SelectorOf(page.elements[m], n))

\* the pass has stored, under each key, the record of the last element given that key
StoredUnder(keys) ==
    /\ DOMAIN self.computed_styles = Range(keys)
    /\ \A k \in 1..Len(keys) :
          (\A j \in (k + 1)..Len(keys) : keys[j] # keys[k])
              => self.computed_styles[keys[k]].color = page.elements[k].computed.color

\* C23 as stated: every element is visited once in document order and stored under
\* the selector of its tag name, its id and its first three classes, the traversal
\* index appended on collision.
C23_FirstThreeClasses ==
    pc = "unit_done" => StoredUnder(KeysOf(Len(page.elements), 3))

\* C23 as amended: every element is visited once in document order and stored under
\* the selector of its tag name, its id and all of its classes, the traversal index
\* appended on collision.
C23_EveryClass ==
    pc = "unit_done" => StoredUnder(KeysOf(Len(page.elements), 4))

\* a pass over an element with four classes and two elements that collide
C23_Witness ==
    /\ pc = "unit_done"
    /\ Len(page.elements) = 3
    /\ Len(page.elements[1].classList) = 4
    /\ page.elements[2] = page.elements[3]
    /\ <<"d","i","v",".","a",".","b",".","c","a","r","d",".","b","t","n">>
          \in DOMAIN self.computed_styles
    /\ <<"d","i","v",".","a","_","2">> \in DOMAIN self.computed_styles

\* the warning echoed for a linked stylesheet names its href
Warned(link) == link.href \in Range(warnings)

\* C24: once _extract_css has returned, every linked stylesheet whose download failed,
\* by a fetch that raised or by a response that is not ok, has a warning, and no
\* linked stylesheet is missing from the result without one.
C24_EveryFailureWarned ==
    CssExtracted
        => \A k \in 1..Len(page.cssLinks) :
               (~FetchSucceeded(page.cssLinks[k])
                  \/ ~Includes(self.css_content, page.cssLinks[k].text))
                   => Warned(page.cssLinks[k])

\* a sequence begins with another
StartsWith(seq, prefix) ==
    Len(prefix) <= Len(seq) /\ SubSeq(seq, 1, Len(prefix)) = prefix

\* the hover loop has elements left to probe
InHoverLoop == pc = "hover_loop" /\ hover_i < Len(Considered)

\* C25: an iteration of the hover loop, whether it records a sample or an error drops
\* it, keeps the samples recorded before, leaves the selected elements as they are,
\* raises nothing and goes on to the next element; and the probe returns
\* all_interactive as it was selected, after a pointer move to each of the first ten
\* selected elements in order.
C25_HoverErrorDropsOneSample ==
    /\ [][InHoverLoop
            => /\ hover_i' = hover_i + 1
               /\ pc' = "hover_loop"
               /\ StartsWith(hover_states', hover_states)
               /\ Len(hover_states') <= Len(hover_states) + 1
               /\ interactive_elements' = interactive_elements
               /\ raised' = raised]_vars
    /\ [](locals.interactive_states # <<>>
            => /\ locals.interactive_states[1].all_interactive = InteractiveStates(page)
               /\ mouse_moves = [k \in 1..Len(Considered) |-> Centre2(Considered[k].rect)])

\* a run that ended with status 0 on a page where an element lies under the pointer
\* at the centre of each of the ten probed elements, and whose probe returned some
\* samples but fewer than ten: an iteration failed after a sample had been recorded
C25_Witness ==
    /\ pc = "done"
    /\ exit_status = 0
    /\ Len(Considered) = 10
    /\ \A k \in 1..10 : HasTopmost(Considered[k])
    /\ Len(mouse_moves) = 10
    /\ Len(data[1].interactive_states.hover_samples) \in 1..9
    /\ data[1].interactive_states.all_interactive = InteractiveStates(page)

\* the data artifacts and the guide
DataArtifacts == {"extracted.html", "extracted.css", "computed_styles.json", "design_data.json"}
GuideArtifact == "design-guide.md"

\* the positions in the list of written files at which a file was written
WrittenAt(file) == {i \in 1..Len(files) : files[i] = file}

\* every stage of extract_all has returned its value, the responsive pass included
EveryStageReturned ==
    /\ \A name \in DOMAIN locals : locals[name] # <<>>
    /\ {"viewport_screenshot.png", "fullpage_screenshot.png", "responsive_mobile.png",
        "responsive_tablet.png", "responsive_desktop.png"} \subseteq Range(files)
    /\ viewport = Configured

\* C26: a data artifact is written only once every stage has returned and the browser
\* is closed, without any stage having raised; the guide is written only after the
\* four data artifacts; and in a run in which a stage raised none of the five is
\* written.
C26_ArtifactsAfterAllStages ==
    /\ \A file \in DataArtifacts :
          WrittenAt(file) # {}
              => EveryStageReturned /\ browser = "closed" /\ raised = <<>>
    /\ \A i \in WrittenAt(GuideArtifact) :
          \A file \in DataArtifacts : \E j \in WrittenAt(file) : j < i
    /\ (raised # <<>>
          => \A file \in DataArtifacts \cup {GuideArtifact} : WrittenAt(file) = {})

\* a finished run that wrote the screenshots, then the four data artifacts, then the
\* guide
C26_Witness ==
    /\ pc = "done"
    /\ exit_status = 0
    /\ EveryStageReturned
    /\ "interactive_hover.png" \in Range(files)
    /\ \A file \in DataArtifacts : Cardinality(WrittenAt(file)) = 1
    /\ WrittenAt(GuideArtifact) = {Len(files)}

====
